---- MODULE Spec2Model ----
(***************************************************************************)
(* Client-side resource synchronisation of the Intuitivus front end:       *)
(*   - useAbortController / useAbortableFetch and the hooks built on them   *)
(*     (useConnectivityTest, useApiHealth) with ApiService's axios          *)
(*     response interceptor (SpecAbort);                                    *)
(*   - the React Query cache with the optimistic mutations of the data      *)
(*     hooks (SpecCache);                                                   *)
(*   - the retry policies of the QueryClient configurations (SpecRetry);    *)
(*   - the session hook, the auth store and token storage (SpecSession).    *)
(* Each subsystem has its own variables; a specification moves the          *)
(* variables of one subsystem and leaves the others at their initial value. *)
(***************************************************************************)
EXTENDS Integers, Sequences, FiniteSets, TLC

VARIABLES
  \* ---- useAbortController instance and its callers
  ctrls,        \* ctrls[i] = TRUE iff the i-th AbortController created is aborted
  current,      \* abortControllerRef.current: index into ctrls, 0 = null
  mounted,      \* the owning component is mounted
  reqs,         \* requests issued, in order: [kind, ctrl, state, err]
  testResults,  \* useConnectivityTest state
  health,       \* the ['api-health'] query of useApiHealth
  toasts,       \* toasts shown: set of [title, req]
  \* ---- one fetch cycle / mutate call under a retry policy
  job,          \* [kind, config, status, errors, calls, cycles]
  \* ---- the React Query cache and the mutations of the data hooks
  cache,        \* query key -> [present, data, invalidated, fetching, origin, active]
  server,       \* the backend's truth: [agent, task]
  muts,         \* mutate calls, in order: [kind, arg, phase, context, ...]
  ops,          \* number of mounts, refetches and mutate calls so far
  scope,        \* the hook whose mutations a behaviour exercises
  \* ---- the session hook, the stores and the browser's storage
  session,      \* useSession state: [isLoading, isAuthenticated, user, error]
  authStore,    \* useAuthStore: [isAuthenticated, user]
  appStore,     \* useAppStore: [user, isAuthenticated, agents, tasks, campaigns]
  storage,      \* localStorage: which of auth_token, refresh_token, user_data exist
  calls,        \* auth requests in flight
  page,         \* the loaded page: [appInit, sessionInit, redirect, toast]
  \* ---- one call of the fetch-based ApiService
  call,         \* [method, outcome, result]
  \* ---- one useContinuousHealthMonitor with its useAbortableInterval
  timers,       \* ids of the interval timers that are active
  created,      \* number of interval timers created so far (ids 1..created)
  intervalRef,  \* intervalRef.current: a timer id, 0 = null
  monitor,      \* [mounted, aborted, listening, isMonitoring, rendered, history,
                \*  ticks, pending]
  \* ---- the app store's data, loading and error maps and the read queries
  store,        \* useAppStore: [agents, tasks, loading, errors]
  reads,        \* resource -> the useQuery of its list: [data, status, fetching]
  \* ---- the app store's user and notifications
  app,          \* useAppStore: [user, isAuthenticated, notifications]
  clock,        \* number of notifications created so far (their order in time)
  edits,        \* number of removals, markings and clearings so far
  \* ---- one mounted useSession instance and its auto-refresh effect
  hook,         \* [mounted, isAuthenticated, effect, timers, inflight, fired]
  \* ---- useAbortableInterval and useAbortableTimeout of one component
  abortable     \* [mounted, aborted, ref, active, listening, created, fired,
                \*  firedLate, started]

abortVars == <<ctrls, current, mounted, reqs, testResults, health, toasts>>
retryVars == <<job>>
cacheVars == <<cache, server, muts, ops, scope>>

sessionVars == <<session, authStore, appStore, storage, calls, page>>

apiVars == <<call>>

timerVars == <<timers, created, intervalRef, monitor>>

storeVars == <<store, reads>>

appVars == <<app, clock, edits>>

hookVars == <<hook>>
abortableVars == <<abortable>>

vars == <<abortVars, retryVars, cacheVars, sessionVars, apiVars, timerVars,
          storeVars, appVars, hookVars, abortableVars>>

\* What the actions of one subsystem leave alone.
AbortFrame == UNCHANGED <<retryVars, cacheVars, sessionVars, apiVars, timerVars,
                          storeVars, appVars, hookVars, abortableVars>>
RetryFrame == UNCHANGED <<abortVars, cacheVars, sessionVars, apiVars, timerVars,
                          storeVars, appVars, hookVars, abortableVars>>
CacheFrame == UNCHANGED <<abortVars, retryVars, sessionVars, apiVars, timerVars,
                          storeVars, appVars, hookVars, abortableVars>>
SessionFrame == UNCHANGED <<abortVars, retryVars, apiVars, timerVars,
                          storeVars, appVars, hookVars, abortableVars>>
ApiFrame == UNCHANGED <<abortVars, retryVars, cacheVars, sessionVars, timerVars,
                          storeVars, appVars, hookVars, abortableVars>>
TimerFrame == UNCHANGED <<abortVars, retryVars, cacheVars, sessionVars, apiVars,
                          storeVars, appVars, hookVars, abortableVars>>
StoreFrame == UNCHANGED <<abortVars, retryVars, cacheVars, sessionVars, apiVars,
                          timerVars, appVars, hookVars,
                          abortableVars>>
AppFrame == UNCHANGED <<abortVars, retryVars, cacheVars, sessionVars, apiVars,
                        timerVars, storeVars, hookVars,
                          abortableVars>>
HookFrame == UNCHANGED <<abortVars, retryVars, cacheVars, sessionVars, apiVars,
                         timerVars, storeVars, appVars, abortableVars>>
AbortableFrame == UNCHANGED <<abortVars, retryVars, cacheVars, sessionVars,
                              apiVars, timerVars, storeVars, appVars, hookVars>>

\* ------------------------------------------------------------------ bounds
MaxControllers == 3
MaxRequests == 3
MaxCycles == 2
\* mounts, unmounts, refetches, garbage collections and mutate calls in one
\* behaviour of the cache
MaxOps == 3
\* interval timers created in one behaviour of the health monitor
MaxTimers == 3
\* ticks of the health monitor in one behaviour
MaxTicks == 22
\* firings of the auto-refresh timer in one behaviour
MaxFires == 3
\* firings of the timers of useAbortableInterval and useAbortableTimeout
MaxFirings == 3
\* notifications added in one behaviour of the app store
MaxAdds == 52
\* removals, markings and clearings of notifications in one behaviour
MaxEdits == 1

\* --------------------------------------------------------- error values
\* An error as the catch blocks see it: its name and its HTTP status.
\* status 0 = no response.
NoError == [name |-> "none", status |-> -1]

\* What the transport rejects with when the request's signal is aborted:
\* axios' CanceledError (no response); the browser fetch's AbortError.
AxiosCanceled == [name |-> "CanceledError", status |-> 0]
FetchAborted == [name |-> "AbortError", status |-> 0]
AxiosHttpError(status) == [name |-> "AxiosError", status |-> status]

\* ApiService.handleGlobalError: the toast it shows for a status ...
GlobalErrorToast(status) ==
  CASE status = 401 -> "Sessao Expirada"
    [] status = 403 -> "Acesso Negado"
    [] status = 404 -> "Recurso Nao Encontrado"
    [] status = 422 -> "Erro de Validacao"
    [] status = 500 -> "Erro Interno do Servidor"
    [] status = 0 -> "Erro de Conexao"
    [] OTHER -> "Erro"

\* ... and the error it rejects with: a plain {message, status, details}
\* object built from error.response, which carries no name.
handleGlobalError(error) == [name |-> "undefined", status |-> error.status]

\* ------------------------------------------------- useAbortController
\* A createController that forgets to abort the controller it replaces.
AbortPrevious_Skip(cs, cur) == cs

\* createController, lines 14-16: abort the previous controller if any.
AbortPrevious(cs, cur) == IF cur # 0 THEN [cs EXCEPT ![cur] = TRUE] ELSE cs

\* A createController that leaves the ref at the controller it has aborted.
createController_KeepRef(cs, cur) ==
  [ctrls |-> Append(AbortPrevious(cs, cur), FALSE),
   current |-> IF cur # 0 THEN cur ELSE Len(cs) + 1]

\* createController: the controllers and the ref after the call.
createController(cs, cur) ==
  [ctrls |-> Append(AbortPrevious(cs, cur), FALSE), current |-> Len(cs) + 1]

\* getSignal: creates a controller only when the ref is null.
getSignal(cs, cur) ==
  IF cur = 0 THEN [ctrls |-> Append(cs, FALSE), current |-> Len(cs) + 1]
  ELSE [ctrls |-> cs, current |-> cur]

\* An abort that leaves the controller of the ref as it is.
AbortCurrent_Skip(cs, cur) == cs

\* abort, lines 33-36; also the unmount cleanup's abort, lines 42-44.
AbortCurrent(cs, cur) == IF cur # 0 THEN [cs EXCEPT ![cur] = TRUE] ELSE cs

\* ------------------------------------------------------------ requests
NewRequest(kind, ctrl) == [kind |-> kind, ctrl |-> ctrl, state |-> "inflight"]

InFlight == {r \in 1..Len(reqs) : reqs[r].state = "inflight"}

\* HTTP statuses the server may answer with; 0 = no response (network error).
Statuses == {200, 500, 0}

\* What the caller's await sees when request r settles with `status` while
\* its signal is (not) aborted. apiService (axios) passes every rejection
\* through the response interceptor; useAbortableFetch calls fetch directly.
\* "none" = resolved.
SettledError(kind, aborted, status) ==
  IF kind = "fetch"
  THEN IF aborted THEN FetchAborted
       ELSE IF status = 200 THEN NoError
       ELSE [name |-> "Error", status |-> status]
  ELSE IF aborted THEN handleGlobalError(AxiosCanceled)
       ELSE IF status = 200 THEN NoError
       ELSE handleGlobalError(AxiosHttpError(status))

\* The toast the interceptor shows while request r settles, if any.
SettledToasts(r, kind, aborted, status) ==
  IF kind = "fetch" \/ (~aborted /\ status = 200) THEN {}
  ELSE {[title |-> GlobalErrorToast(IF aborted THEN 0 ELSE status), req |-> r]}

\* Number of runConnectivityTest calls started so far.
ConnectivityCalls == Cardinality({r \in 1..Len(reqs) : reqs[r].kind = "connectivity"})

\* runConnectivityTest's continuation after the await, lines 102-128.
\* React drops a state update of an unmounted component.
ConnectivitySettled(r, error) ==
  IF error = NoError
  THEN IF mounted THEN [backend |-> TRUE, req |-> r, latest |-> ConnectivityCalls]
       ELSE testResults
  ELSE IF error.name = "AbortError" THEN testResults
  ELSE IF mounted THEN [backend |-> FALSE, req |-> r, latest |-> ConnectivityCalls]
       ELSE testResults

\* useApiHealth's retry option, lines 56-60.
HealthRetryOption(failureCount, error) ==
  IF error.name = "AbortError" THEN FALSE ELSE failureCount < 3

\* The ['api-health'] query after its queryFn settles, lines 36-52: an
\* AbortError makes queryFn return null; any other error is thrown to the
\* retryer, which retries only while the query still has an observer.
HealthSettled(r, error) ==
  IF error = NoError
  THEN [status |-> "success", failureCount |-> 0, data |-> "health", req |-> r]
  ELSE IF error.name = "AbortError"
  THEN [status |-> "success", failureCount |-> 0, data |-> "null", req |-> r]
  ELSE IF mounted /\ HealthRetryOption(health.failureCount, error)
  THEN [health EXCEPT !.status = "retrying",
                      !.failureCount = health.failureCount + 1, !.req = r]
  ELSE [health EXCEPT !.status = "error", !.req = r]

\* ------------------------------------------------------------- actions
AbortInit ==
  \* the first render calls getSignal(), line 52
  /\ ctrls = <<FALSE>>
  /\ current = 1
  /\ mounted = TRUE
  /\ reqs = <<>>
  /\ testResults = [backend |-> FALSE, req |-> 0, latest |-> 0]
  /\ health = [status |-> "idle", failureCount |-> 0, data |-> "undefined", req |-> 0]
  /\ toasts = {}

CreateController ==
  /\ mounted
  /\ Len(ctrls) < MaxControllers
  /\ LET c == createController(ctrls, current) IN
       /\ ctrls' = c.ctrls
       /\ current' = c.current
  /\ UNCHANGED <<mounted, reqs, testResults, health, toasts>>
  /\ AbortFrame

GetSignal ==
  /\ mounted
  /\ current = 0
  /\ Len(ctrls) < MaxControllers
  /\ LET c == getSignal(ctrls, current) IN
       /\ ctrls' = c.ctrls
       /\ current' = c.current
  /\ UNCHANGED <<mounted, reqs, testResults, health, toasts>>
  /\ AbortFrame

Abort ==
  /\ mounted
  /\ current # 0
  /\ ctrls' = AbortCurrent(ctrls, current)
  /\ current' = 0
  /\ UNCHANGED <<mounted, reqs, testResults, health, toasts>>
  /\ AbortFrame

Unmount ==
  /\ mounted
  /\ ctrls' = AbortCurrent(ctrls, current)
  /\ mounted' = FALSE
  /\ UNCHANGED <<current, reqs, testResults, health, toasts>>
  /\ AbortFrame

\* runConnectivityTest up to its await, lines 97-101.
RunConnectivityTest ==
  /\ mounted
  /\ Len(ctrls) < MaxControllers
  /\ Len(reqs) < MaxRequests
  /\ LET c == createController(ctrls, current) IN
       /\ ctrls' = c.ctrls
       /\ current' = c.current
       /\ reqs' = Append(reqs, NewRequest("connectivity", c.current))
  /\ UNCHANGED <<mounted, testResults, health, toasts>>
  /\ AbortFrame

\* abortableFetch up to its await, lines 64-70.
AbortableFetch ==
  /\ mounted
  /\ Len(ctrls) < MaxControllers
  /\ Len(reqs) < MaxRequests
  /\ LET c == createController(ctrls, current) IN
       /\ ctrls' = c.ctrls
       /\ current' = c.current
       /\ reqs' = Append(reqs, NewRequest("fetch", c.current))
  /\ UNCHANGED <<mounted, testResults, health, toasts>>
  /\ AbortFrame

\* The health queryFn up to its await: a first fetch, a refetchInterval
\* tick, or the retry of a failed attempt after retryDelay.
HealthFetch ==
  /\ health.status \in {"idle", "success", "error", "retrying"}
  /\ Len(reqs) < MaxRequests
  /\ IF health.status = "retrying" /\ ~mounted
     THEN \* cancelRetry: the pending retry rejects with the last error
          /\ health' = [health EXCEPT !.status = "error"]
          /\ UNCHANGED <<ctrls, current, reqs>>
     ELSE /\ mounted
          /\ current = 0 => Len(ctrls) < MaxControllers
          /\ LET c == getSignal(ctrls, current) IN
               /\ ctrls' = c.ctrls
               /\ current' = c.current
               /\ reqs' = Append(reqs, NewRequest("health", c.current))
          /\ health' = [health EXCEPT
                          !.status = "fetching",
                          !.failureCount =
                             IF health.status = "retrying" THEN @ ELSE 0]
  /\ UNCHANGED <<mounted, testResults, toasts>>
  /\ AbortFrame

\* Request r settles and its caller's continuation runs.
Settle(r, status) ==
  /\ r \in InFlight
  /\ LET kind == reqs[r].kind
         aborted == ctrls[reqs[r].ctrl]
         error == SettledError(kind, aborted, status)
     IN
       /\ reqs' = [reqs EXCEPT ![r].state =
                     IF aborted THEN "canceled"
                     ELSE IF status = 200 THEN "ok" ELSE "failed"]
       /\ toasts' = toasts \cup SettledToasts(r, kind, aborted, status)
       /\ testResults' =
            IF kind = "connectivity" THEN ConnectivitySettled(r, error)
            ELSE testResults
       /\ health' = IF kind = "health" THEN HealthSettled(r, error) ELSE health
  /\ UNCHANGED <<ctrls, current, mounted>>
  /\ AbortFrame

AbortNext ==
  \/ CreateController
  \/ GetSignal
  \/ Abort
  \/ Unmount
  \/ RunConnectivityTest
  \/ AbortableFetch
  \/ HealthFetch
  \/ \E r \in 1..Len(reqs), status \in Statuses : Settle(r, status)


\* ------------------------------------------------------ retry policies
\* The retry options of the application, by where they are configured.
\* A retry option that allows one retry too many.
AppQueryRetry_Four(failureCount, error) ==
  IF error.status >= 400 /\ error.status < 500 THEN FALSE ELSE failureCount < 4

\* A retry option that lets a 429 through to the retry count.
AppQueryRetry_Except429(failureCount, error) ==
  IF error.status >= 400 /\ error.status < 500 /\ error.status # 429
  THEN FALSE ELSE failureCount < 3

\* queries.retry of AppProvider's QueryClient.
AppQueryRetry(failureCount, error) ==
  IF error.status >= 400 /\ error.status < 500 THEN FALSE ELSE failureCount < 3

\* queries.retry of the QueryClient of App (OptimizedDashboard.tsx).
RouterQueryRetry(failureCount, error) ==
  IF error.status = 401 THEN FALSE ELSE failureCount < 3

\* retry of useOptimizedDashboardStats.
DashboardStatsRetry(failureCount, error) ==
  IF error.status >= 400 /\ error.status < 500 THEN FALSE ELSE failureCount < 3

\* retry: 3 of the useApiHealth without AbortController.
HealthRetryCount == 3

\* A client configured to retry mutations twice.
AppMutationRetry_Two == 1 + 1

\* mutations.retry of AppProvider's QueryClient.
AppMutationRetry == 1

\* React Query's default for mutations when a client sets none.
DefaultMutationRetry == 0

QueryConfigs == {"app", "router", "stats", "health", "healthPlain", "test"}
MutationConfigs == {"app", "router", "test"}

\* The retryer's decision after the (failureCount+1)-th failure: a number n
\* retries while failureCount < n, false never, a function decides itself.
\* failureCount is the number of failures before this one.
ShouldRetry(kind, config, failureCount, error) ==
  IF kind = "query"
  THEN CASE config = "app" -> AppQueryRetry(failureCount, error)
         [] config = "router" -> RouterQueryRetry(failureCount, error)
         [] config = "stats" -> DashboardStatsRetry(failureCount, error)
         [] config = "health" -> HealthRetryOption(failureCount, error)
         [] config = "healthPlain" -> failureCount < HealthRetryCount
         [] OTHER -> FALSE
  ELSE CASE config = "app" -> failureCount < AppMutationRetry
         [] config = "router" -> failureCount < DefaultMutationRetry
         [] OTHER -> FALSE

\* Statuses a failing call rejects with; 0 = network error.
FailureStatuses == {0, 500, 401, 404, 429}

RetryIdleJob ==
  [kind |-> "query", config |-> "app", status |-> "idle", errors |-> <<>>,
   calls |-> 0, cycles |-> 0]

RetryInit ==
  \E k \in {"query", "mutation"} :
    \E c \in (IF k = "query" THEN QueryConfigs ELSE MutationConfigs) :
      job = [RetryIdleJob EXCEPT !.kind = k, !.config = c]

\* A new fetch cycle (mount, refetch, invalidation) or a new mutate call:
\* the function is invoked for the first time.
Trigger ==
  /\ job.status \in {"idle", "success", "error"}
  /\ job.cycles < MaxCycles
  /\ job' = [job EXCEPT !.status = "running", !.errors = <<>>, !.calls = 1,
                        !.cycles = @ + 1]
  /\ RetryFrame

FnResolves ==
  /\ job.status = "running"
  /\ job' = [job EXCEPT !.status = "success"]
  /\ RetryFrame

\* The function rejects: the retryer either schedules a retry or gives up.
FnRejects(status) ==
  /\ job.status = "running"
  /\ LET error == [name |-> "undefined", status |-> status] IN
       job' = [job EXCEPT
                 !.errors = Append(@, status),
                 !.status =
                    IF ShouldRetry(job.kind, job.config, Len(job.errors), error)
                    THEN "waiting" ELSE "error"]
  /\ RetryFrame

\* The retry delay has passed: the function is invoked again.
RetryFire ==
  /\ job.status = "waiting"
  /\ job' = [job EXCEPT !.status = "running", !.calls = @ + 1]
  /\ RetryFrame

RetryNext ==
  \/ Trigger
  \/ FnResolves
  \/ \E status \in FailureStatuses : FnRejects(status)
  \/ RetryFire


\* ------------------------------------------------------- query cache
\* Query keys: QUERY_KEYS of the optimized data hooks and AGENTS_QUERY_KEYS
\* of the agents hooks, for one agent / task id "1" and one filter object "f"
\* (status = active).
KAgents == <<"agents">>
KAgentLists == <<"agents", "list">>
KAgentList == <<"agents", "list", "f">>
KAgentDetail == <<"agents", "detail", "1">>
KTasks == <<"tasks">>
KTasksF == <<"tasks", "f">>
KStats == <<"dashboard", "stats">>

Keys == {KAgents, KAgentList, KAgentDetail, KTasks, KTasksF, KStats}

\* React Query's partial key match: the filter key is a prefix of the key.
Matches(prefix, key) ==
  /\ Len(prefix) <= Len(key)
  /\ SubSeq(key, 1, Len(prefix)) = prefix

\* Cached data: undefined, or a list of items (a detail query holds one).
Undefined == [has |-> FALSE, items |-> <<>>]
Items(list) == [has |-> TRUE, items |-> list]
Item(status) == [id |-> "1", status |-> status]

StatusValues == {"active", "inactive"}

\* What the backend answers a GET for a key with; Undefined = an error
\* answer (404 for the detail of an agent that does not exist).
Response(key, srv) ==
  CASE key = KAgents ->
         Items(IF srv.agent = "none" THEN <<>> ELSE <<Item(srv.agent)>>)
    [] key = KAgentList ->
         Items(IF srv.agent = "active" THEN <<Item(srv.agent)>> ELSE <<>>)
    [] key = KAgentDetail ->
         IF srv.agent = "none" THEN Undefined ELSE Items(<<Item(srv.agent)>>)
    [] key = KTasks -> Items(<<Item(srv.task)>>)
    [] key = KTasksF ->
         Items(IF srv.task = "active" THEN <<Item(srv.task)>> ELSE <<>>)
    [] OTHER -> Items(<<[id |-> srv.agent, status |-> srv.task]>>)

AbsentEntry ==
  [present |-> FALSE, data |-> Undefined, invalidated |-> FALSE,
   fetching |-> FALSE, origin |-> 0, active |-> FALSE, hit |-> FALSE]

\* queryClient.setQueryData(key, data): undefined data is ignored; otherwise
\* the query is created if needed, its data replaced and its invalidation
\* flag reset. A fetch in flight for the key is left running.
setQueryData(c, key, data) ==
  IF ~data.has THEN c
  ELSE [c EXCEPT ![key] = [@ EXCEPT !.present = TRUE, !.data = data,
                                    !.invalidated = FALSE]]

\* queryClient.getQueryData(key)
getQueryData(c, key) == c[key].data

\* queryClient.setQueriesData({queryKey: prefix}, updater): the updater is
\* applied to every query in the cache that matches; updated[k] is the
\* updater's result for the data of k.
setQueriesData(c, prefix, updated) ==
  [k \in Keys |->
     IF c[k].present /\ Matches(prefix, k) /\ updated[k].has
     THEN [c[k] EXCEPT !.data = updated[k], !.invalidated = FALSE]
     ELSE c[k]]

\* queryClient.cancelQueries({queryKey: prefix}): fetches in flight for the
\* matching queries are cancelled and never write.
cancelQueries(c, prefix) ==
  [k \in Keys |->
     IF Matches(prefix, k) THEN [c[k] EXCEPT !.fetching = FALSE, !.origin = 0]
     ELSE c[k]]

\* invalidateQueries with an exact key match instead of the prefix match.
invalidateQueries_Exact(c, prefix, m) ==
  [k \in Keys |->
     IF c[k].present /\ prefix = k
     THEN [c[k] EXCEPT !.invalidated = TRUE,
                       !.fetching = @ \/ c[k].active,
                       !.origin = IF c[k].active THEN m ELSE @]
     ELSE c[k]]

\* queryClient.invalidateQueries({queryKey: prefix}) called by mutation m:
\* every matching query is marked invalidated and the active ones (those
\* with an observer) are refetched, replacing a fetch already in flight.
invalidateQueries(c, prefix, m) ==
  [k \in Keys |->
     IF c[k].present /\ Matches(prefix, k)
     THEN [c[k] EXCEPT !.invalidated = TRUE,
                       !.fetching = @ \/ c[k].active,
                       !.origin = IF c[k].active THEN m ELSE @]
     ELSE c[k]]

\* queryClient.removeQueries({queryKey: prefix})
removeQueries(c, prefix) ==
  [k \in Keys |->
     IF Matches(prefix, k) THEN [AbsentEntry EXCEPT !.active = c[k].active]
     ELSE c[k]]

\* ---- the updaters of the optimistic patches
\* old?.map(x => x.id === id ? {...x, status} : x) || []
MapStatus(list, status) ==
  [i \in 1..Len(list) |-> [list[i] EXCEPT !.status = status]]

StatusUpdater(old, status) ==
  IF old.has THEN Items(MapStatus(old.items, status)) ELSE Items(<<>>)

\* old?.filter(agent => agent.id !== id) || []  (every item has id "1")
DeleteUpdater(old) == Items(<<>>)

\* old ? [...old, newAgent] : [newAgent]
AppendUpdater(old, item) ==
  IF old.has THEN Items(Append(old.items, item)) ELSE Items(<<item>>)

\* ---- the mutations of the data hooks
\* part_006: createAgent, updateAgentStatus, updateTaskStatus;
\* part_007: useCreateAgent, useUpdateAgent, useDeleteAgent.
MutationKinds ==
  {"createAgent", "updateAgentStatus", "updateTaskStatus",
   "useCreateAgent", "useUpdateAgent", "useDeleteAgent"}

\* The cache after onMutate's `await cancelQueries(...)`.
OnMutateCancel(kind, c) ==
  CASE kind = "updateAgentStatus" -> cancelQueries(c, KAgents)
    [] kind = "updateTaskStatus" -> cancelQueries(c, KTasks)
    [] kind \in {"useUpdateAgent", "useDeleteAgent"} -> cancelQueries(c, KAgentDetail)
    [] OTHER -> c

\* The snapshot onMutate returns as the mutation's context.
OnMutateContext(kind, c) ==
  CASE kind = "updateAgentStatus" -> getQueryData(c, KAgents)
    [] kind = "updateTaskStatus" -> getQueryData(c, KTasks)
    [] kind \in {"useUpdateAgent", "useDeleteAgent"} -> getQueryData(c, KAgentDetail)
    [] OTHER -> Undefined

\* An onMutate that writes no patch before the write is sent.
OnMutatePatch_Late(kind, arg, c) == c

\* The cache after onMutate's optimistic patch.
OnMutatePatch(kind, arg, c) ==
  CASE kind = "updateAgentStatus" ->
         setQueryData(c, KAgents, StatusUpdater(c[KAgents].data, arg))
    [] kind = "updateTaskStatus" ->
         setQueriesData(c, KTasks, [k \in Keys |-> StatusUpdater(c[k].data, arg)])
    [] kind = "useUpdateAgent" ->
         IF c[KAgentDetail].data.has
         THEN setQueryData(c, KAgentDetail, StatusUpdater(c[KAgentDetail].data, arg))
         ELSE c
    [] kind = "useDeleteAgent" -> setQueriesData(c, KAgentLists, [k \in Keys |-> DeleteUpdater(c[k].data)])
    [] OTHER -> c

\* onError restoring the snapshot: `if (context?.previous) setQueryData(...)`.
OnErrorRestore(kind, context, c) ==
  CASE kind = "updateAgentStatus" ->
         IF context.has THEN setQueryData(c, KAgents, context) ELSE c
    [] kind = "updateTaskStatus" ->
         IF context.has THEN setQueryData(c, KTasks, context) ELSE c
    [] kind \in {"useUpdateAgent", "useDeleteAgent"} ->
         IF context.has THEN setQueryData(c, KAgentDetail, context) ELSE c
    [] OTHER -> c

\* The invalidations of onError followed by onSettled, for mutation m.
OnErrorInvalidate(kind, c, m) ==
  CASE kind = "updateAgentStatus" -> invalidateQueries(c, KAgents, m)
    [] kind = "updateTaskStatus" -> invalidateQueries(c, KTasks, m)
    [] kind = "useUpdateAgent" -> invalidateQueries(c, KAgentDetail, m)
    [] kind = "useDeleteAgent" ->
         invalidateQueries(invalidateQueries(c, KAgentLists, m), KAgentLists, m)
    [] OTHER -> c

\* onSuccess followed by onSettled, for mutation m whose write returned
\* `item` (the created or updated agent).
OnSuccessCache(kind, item, c, m) ==
  CASE kind = "createAgent" ->
         LET c1 == invalidateQueries(c, KAgents, m) IN
           setQueryData(c1, KAgents, AppendUpdater(c1[KAgents].data, item))
    [] kind = "updateAgentStatus" -> invalidateQueries(c, KAgents, m)
    [] kind = "updateTaskStatus" -> invalidateQueries(c, KTasks, m)
    [] kind = "useCreateAgent" ->
         setQueryData(invalidateQueries(c, KAgentLists, m), KAgentDetail,
                      Items(<<item>>))
    [] kind = "useUpdateAgent" ->
         invalidateQueries(invalidateQueries(c, KAgentLists, m), KAgentDetail, m)
    [] OTHER \* useDeleteAgent
         -> invalidateQueries(removeQueries(c, KAgentDetail), KAgentLists, m)

\* Whether the backend accepts the write, and its state afterwards.
WriteAccepted(kind, srv) ==
  CASE kind \in {"createAgent", "useCreateAgent"} -> srv.agent = "none"
    [] kind = "updateTaskStatus" -> TRUE
    [] OTHER -> srv.agent # "none"

ServerApply(kind, arg, srv) ==
  CASE kind = "updateTaskStatus" -> [srv EXCEPT !.task = arg]
    [] kind = "useDeleteAgent" -> [srv EXCEPT !.agent = "none"]
    [] OTHER -> [srv EXCEPT !.agent = arg]

\* Mutations whose write has not settled yet.
Unsettled(ms) == {m \in 1..Len(ms) : ms[m].phase = "pending"}

ChangedKeys(c, c2) == {k \in Keys : c2[k].data # c[k].data}

\* Bookkeeping for the properties: every unsettled mutation other than
\* `actor` records who (0 = a fetch, m = mutation m's handlers) has changed
\* the data of a key it patched since its onMutate.
Note(ms, actor, c, c2) ==
  [m \in 1..Len(ms) |->
     IF /\ m \in Unsettled(ms)
        /\ m # actor
        /\ ChangedKeys(c, c2) \cap ms[m].patched # {}
     THEN [ms[m] EXCEPT !.writers = @ \cup {actor}]
     ELSE ms[m]]

\* The hook whose mutations a behaviour exercises: useOptimizedAgents and
\* useOptimizedTasks (part_006) or the useAgents family (part_007). The
\* agent hooks work on the keys under ['agents'], the task hook on the keys
\* under ['tasks']; the two families share no key and no key prefix. Every
\* page also reads the dashboard-stats key.
Scopes == {"useOptimizedAgents", "useAgents", "useOptimizedTasks"}

ScopeKeys(sc) ==
  IF sc = "useOptimizedTasks" THEN {KTasks, KTasksF, KStats}
  ELSE {KAgents, KAgentList, KAgentDetail, KStats}

ScopeKinds(sc) ==
  CASE sc = "useOptimizedAgents" -> {"createAgent", "updateAgentStatus"}
    [] sc = "useAgents" -> {"useCreateAgent", "useUpdateAgent", "useDeleteAgent"}
    [] OTHER -> {"updateTaskStatus"}

CacheIdleState ==
  /\ cache = [k \in Keys |-> AbsentEntry]
  /\ muts = <<>>
  /\ ops = 0

\* A fresh QueryClient; the backend holds one task and at most one agent.
CacheInit ==
  /\ CacheIdleState
  /\ scope \in Scopes
  /\ server \in [agent : {"active", "none"}, task : {"active"}]

\* A mount that refetches even fresh data (refetchOnMount: 'always').
MountFetches_Always(entry) == TRUE

\* refetchOnMount (the default): a mounting observer fetches when the query
\* has no data or its data is stale.
MountFetches(entry) == ~entry.data.has \/ entry.invalidated

\* A fetch that drops the data it is about to replace.
StartFetch_Reset(entry) == [entry EXCEPT !.fetching = TRUE, !.data = Undefined]

\* A fetch starts, or the caller joins the one in flight: data and staleness
\* stay as they are.
StartFetch(entry) == [entry EXCEPT !.fetching = TRUE]

\* A component mounts a useQuery on key k: the query gets an observer and
\* is fetched when it has no data or its data is stale. hit records that the
\* mount was served from the cache without a fetch.
Subscribe(k) ==
  /\ k \in ScopeKeys(scope)
  /\ ~cache[k].active
  /\ ops < MaxOps
  /\ LET entry == [cache[k] EXCEPT !.present = TRUE, !.active = TRUE,
                                    !.hit = ~MountFetches(cache[k])] IN
       cache' = [cache EXCEPT ![k] =
                   IF MountFetches(cache[k]) THEN StartFetch(entry) ELSE entry]
  /\ ops' = ops + 1
  /\ UNCHANGED <<server, muts, scope>>
  /\ CacheFrame

\* The last component using key k unmounts. The queryFn of the data hooks
\* does not use the query's signal, so a fetch in flight goes on.
Unsubscribe(k) ==
  /\ cache[k].active
  /\ ops < MaxOps
  /\ cache' = [cache EXCEPT ![k].active = FALSE]
  /\ ops' = ops + 1
  /\ UNCHANGED <<server, muts, scope>>
  /\ CacheFrame

\* The keys whose queries set refetchInterval (tasks every 30 s, dashboard
\* stats every 60 s).
Polled == {KTasks, KTasksF, KStats}

\* refetch() or a refetchInterval tick of a mounted query, whatever the age
\* of its data; while a fetch is in flight the call joins it.
Refetch(k) ==
  /\ k \in ScopeKeys(scope)
  /\ cache[k].active
  /\ ~cache[k].fetching
  /\ ops < MaxOps
  /\ cache' = [cache EXCEPT ![k] = StartFetch(@)]
  /\ ops' = ops + 1
  /\ UNCHANGED <<server, muts, scope>>
  /\ CacheFrame

\* staleTime has passed since the data of k was written: the query is stale
\* (isStale() holds for an invalidated query and for one older than
\* staleTime; no fetch starts by this alone).
StaleTimeElapses(k) ==
  /\ cache[k].data.has
  /\ ~cache[k].invalidated
  /\ cache' = [cache EXCEPT ![k].invalidated = TRUE]
  /\ UNCHANGED <<server, muts, ops, scope>>
  /\ CacheFrame

\* A garbage collection that ignores observers and fetches in flight.
GcEligible_Any(entry) == entry.present

\* The query may be removed when its gcTime timer fires: the timer runs only
\* while the query has no observer (addObserver clears it) and the removal
\* is skipped while a fetch is in flight.
GcEligible(entry) == entry.present /\ ~entry.active /\ ~entry.fetching

\* The gcTime timer of k fires.
GcFires(k) ==
  /\ GcEligible(cache[k])
  /\ ops < MaxOps
  /\ cache' = [cache EXCEPT ![k] = [AbsentEntry EXCEPT !.active = cache[k].active]]
  /\ muts' = Note(muts, 0, cache, cache')
  /\ ops' = ops + 1
  /\ UNCHANGED <<server, scope>>
  /\ CacheFrame

\* The fetch of k settles: its answer replaces the data, an error answer
\* (or, with ok = FALSE, a network failure) leaves the data as it is.
FetchSettles(k, ok) ==
  /\ cache[k].fetching
  /\ LET answer == IF ok THEN Response(k, server) ELSE Undefined
         c2 == [setQueryData(cache, k, answer) EXCEPT
                  ![k].fetching = FALSE, ![k].origin = 0]
     IN
       /\ cache' = c2
       /\ muts' = Note(muts, 0, cache, c2)
  /\ UNCHANGED <<server, ops, scope>>
  /\ CacheFrame

\* mutate(): onMutate runs (cancel, snapshot, patch) and mutationFn sends
\* the write.
Mutate(kind, arg) ==
  /\ kind \in ScopeKinds(scope)
  /\ ops < MaxOps
  /\ kind \in {"useDeleteAgent", "createAgent", "useCreateAgent"} => arg = "active"
  /\ LET m == Len(muts) + 1
         c1 == OnMutateCancel(kind, cache)
         c2 == OnMutatePatch(kind, arg, c1)
         patched == ChangedKeys(cache, c2)
     IN
       /\ cache' = c2
       /\ muts' = Append(Note(muts, m, cache, c2),
                         [kind |-> kind, arg |-> arg, phase |-> "pending",
                          context |-> OnMutateContext(kind, c1),
                          pre |-> [k \in Keys |-> IF k \in patched
                                                  THEN cache[k].data
                                                  ELSE Undefined],
                          patched |-> patched,
                          nested |-> Unsettled(muts),
                          writers |-> {}])
  /\ ops' = ops + 1
  /\ UNCHANGED <<server, scope>>
  /\ CacheFrame

\* The write succeeds: onSuccess and onSettled run.
WriteResolves(m) ==
  /\ m \in 1..Len(muts)
  /\ muts[m].phase = "pending"
  /\ WriteAccepted(muts[m].kind, server)
  /\ LET c2 == OnSuccessCache(muts[m].kind, Item(muts[m].arg), cache, m) IN
       /\ cache' = c2
       /\ muts' = [Note(muts, m, cache, c2) EXCEPT ![m].phase = "success"]
  /\ server' = ServerApply(muts[m].kind, muts[m].arg, server)
  /\ UNCHANGED <<ops, scope>>
  /\ CacheFrame

\* The write is rejected and the client's retries are used up: onError and
\* onSettled run.
WriteRejects(m) ==
  /\ m \in 1..Len(muts)
  /\ muts[m].phase = "pending"
  /\ LET c1 == OnErrorRestore(muts[m].kind, muts[m].context, cache)
         c2 == OnErrorInvalidate(muts[m].kind, c1, m)
     IN
       /\ cache' = c2
       /\ muts' = [Note(muts, m, cache, c2) EXCEPT ![m].phase = "error"]
  /\ UNCHANGED <<server, ops, scope>>
  /\ CacheFrame

CacheNext ==
  \/ \E k \in Keys : Subscribe(k)
  \/ \E k \in Keys : Unsubscribe(k)
  \/ \E k \in Keys : Refetch(k)
  \/ \E k \in Keys : StaleTimeElapses(k)
  \/ \E k \in Keys : GcFires(k)
  \/ \E k \in Keys, ok \in BOOLEAN : FetchSettles(k, ok)
  \/ \E kind \in MutationKinds, arg \in StatusValues : Mutate(kind, arg)
  \/ \E m \in 1..MaxOps : WriteResolves(m)
  \/ \E m \in 1..MaxOps : WriteRejects(m)

CacheIdleInit ==
  /\ CacheIdleState
  /\ scope = "useAgents"
  /\ server = [agent |-> "active", task |-> "active"]

\* ------------------------------------------------------------ session
\* localStorage without the three authentication items.
NoItems == [auth_token |-> FALSE, refresh_token |-> FALSE, user_data |-> FALSE]

SignedOut == [isAuthenticated |-> FALSE, user |-> FALSE]
SignedIn == [isAuthenticated |-> TRUE, user |-> TRUE]

\* useSession state after a failure with the given message.
Failed(message) ==
  [isLoading |-> FALSE, isAuthenticated |-> FALSE, user |-> FALSE,
   error |-> message]

Authenticated ==
  [isLoading |-> FALSE, isAuthenticated |-> TRUE, user |-> TRUE,
   error |-> "null"]

\* useAppStore's initialState and the state AppProvider's initializeApp
\* loads when a token is stored.
EmptyAppStore ==
  [user |-> FALSE, isAuthenticated |-> FALSE, agents |-> FALSE,
   tasks |-> FALSE, campaigns |-> FALSE]

LoadedAppStore ==
  [user |-> TRUE, isAuthenticated |-> TRUE, agents |-> TRUE,
   tasks |-> TRUE, campaigns |-> TRUE]

\* useAppStore.actions.logout
AppLogout(st) ==
  [st EXCEPT !.user = FALSE, !.isAuthenticated = FALSE, !.agents = FALSE,
             !.tasks = FALSE, !.campaigns = FALSE]

\* ApiService.handleUnauthorized on a response with the given status: the
\* items are removed, a toast is shown and the redirect to /login is
\* scheduled; other statuses leave storage and page as they are.
UnauthorizedStorage(status, st) == IF status = 401 THEN NoItems ELSE st

UnauthorizedPage(status, pg) ==
  IF status = 401
  THEN [pg EXCEPT !.redirect = TRUE, !.toast = "Sessao Expirada"]
  ELSE pg

AuthStatuses == {401, 500}

FreshPage ==
  [appInit |-> FALSE, sessionInit |-> FALSE, redirect |-> FALSE,
   toast |-> "none"]

\* The mount effects of AppProvider and useSession have run; only then can
\* the user act on the page.
PageReady == page.appInit /\ page.sessionInit

\* The state of a page right after it is loaded: a new QueryClient, initial
\* hook state, and of the app store the persisted part (user and
\* isAuthenticated).
LoadPage ==
  /\ page' = FreshPage
  /\ cache' = [k \in Keys |-> AbsentEntry]
  /\ muts' = <<>>
  /\ calls' = {}
  /\ session' = [isLoading |-> TRUE, isAuthenticated |-> FALSE,
                 user |-> FALSE, error |-> "null"]
  /\ appStore' = [EmptyAppStore EXCEPT !.user = appStore.user,
                                       !.isAuthenticated = appStore.isAuthenticated]
  /\ UNCHANGED <<authStore, storage, server, ops, scope>>

SessionInit ==
  /\ session = [isLoading |-> TRUE, isAuthenticated |-> FALSE,
                user |-> FALSE, error |-> "null"]
  /\ authStore = SignedOut
  /\ appStore = EmptyAppStore
  /\ storage = NoItems
  /\ calls = {}
  /\ page = FreshPage

\* AppProvider's mount effect: with a stored token the user and the initial
\* agents, tasks and campaigns are put in the app store.
InitializeApp ==
  /\ ~page.appInit
  /\ page' = [page EXCEPT !.appInit = TRUE]
  /\ appStore' = IF storage.auth_token THEN LoadedAppStore ELSE appStore
  /\ UNCHANGED <<session, authStore, storage, calls, cacheVars>>
  /\ SessionFrame

\* useSession's mount effect: initializeSession calls validateSession, which
\* gives up without a token and otherwise asks /api/v1/auth/me.
InitializeSession ==
  /\ ~page.sessionInit
  /\ page' = [page EXCEPT !.sessionInit = TRUE]
  /\ IF storage.auth_token
     THEN /\ session' = [session EXCEPT !.isLoading = TRUE, !.error = "null"]
          /\ calls' = calls \cup {"me"}
          /\ UNCHANGED <<authStore, storage>>
     ELSE /\ session' = Failed("No token found")
          /\ authStore' = SignedOut
          /\ storage' = NoItems
          /\ UNCHANGED calls
  /\ UNCHANGED <<appStore, cacheVars>>
  /\ SessionFrame

\* /api/v1/auth/me answers: validateSession's success path; a refresh that
\* was waiting for it then shows its toast.
MeResolves(c) ==
  /\ c \in calls \cap {"me", "meAfterRefresh"}
  /\ calls' = calls \ {c}
  /\ session' = Authenticated
  /\ authStore' = SignedIn
  /\ storage' = [storage EXCEPT !.user_data = TRUE]
  /\ page' = IF c = "meAfterRefresh"
             THEN [page EXCEPT !.toast = "Sessao Renovada"] ELSE page
  /\ UNCHANGED <<appStore, cacheVars>>
  /\ SessionFrame

\* /api/v1/auth/me fails: the interceptor handles the status, then
\* validateSession's catch logs out; refreshSession goes on to its toast.
MeRejects(c, status) ==
  /\ c \in calls \cap {"me", "meAfterRefresh"}
  /\ calls' = calls \ {c}
  /\ session' = Failed("request failed")
  /\ authStore' = SignedOut
  /\ storage' = NoItems
  /\ page' = IF c = "meAfterRefresh"
             THEN [UnauthorizedPage(status, page) EXCEPT !.toast = "Sessao Renovada"]
             ELSE UnauthorizedPage(status, page)
  /\ UNCHANGED <<appStore, cacheVars>>
  /\ SessionFrame

\* login(email, password): the request is sent.
Login ==
  /\ PageReady
  /\ "login" \notin calls
  /\ calls' = calls \cup {"login"}
  /\ session' = [session EXCEPT !.isLoading = TRUE, !.error = "null"]
  /\ UNCHANGED <<authStore, appStore, storage, page, cacheVars>>
  /\ SessionFrame

LoginResolves ==
  /\ "login" \in calls
  /\ calls' = calls \ {"login"}
  /\ storage' = [auth_token |-> TRUE, refresh_token |-> TRUE, user_data |-> TRUE]
  /\ session' = Authenticated
  /\ authStore' = SignedIn
  /\ page' = [page EXCEPT !.toast = "Login Realizado"]
  /\ UNCHANGED <<appStore, cacheVars>>
  /\ SessionFrame

LoginRejects(status) ==
  /\ "login" \in calls
  /\ calls' = calls \ {"login"}
  /\ storage' = UnauthorizedStorage(status, storage)
  /\ page' = UnauthorizedPage(status, page)
  /\ session' = [session EXCEPT !.isLoading = FALSE, !.error = "request failed"]
  /\ UNCHANGED <<authStore, appStore, cacheVars>>
  /\ SessionFrame

\* refreshSession(), from the 25-minute interval of an authenticated session
\* or from a caller of the hook.
RefreshSession ==
  /\ PageReady
  /\ "refresh" \notin calls
  /\ IF storage.refresh_token
     THEN /\ calls' = calls \cup {"refresh"}
          /\ UNCHANGED <<session, authStore, storage, page>>
     ELSE /\ session' = Failed("Session expired")
          /\ authStore' = SignedOut
          /\ storage' = NoItems
          /\ page' = [page EXCEPT !.toast = "Sessao Expirada"]
          /\ UNCHANGED calls
  /\ UNCHANGED <<appStore, cacheVars>>
  /\ SessionFrame

\* The refresh answers: the new tokens are stored and validateSession runs.
RefreshResolves ==
  /\ "refresh" \in calls
  /\ calls' = (calls \ {"refresh"}) \cup {"meAfterRefresh"}
  /\ storage' = [storage EXCEPT !.auth_token = TRUE, !.refresh_token = TRUE]
  /\ session' = [session EXCEPT !.isLoading = TRUE, !.error = "null"]
  /\ UNCHANGED <<authStore, appStore, page, cacheVars>>
  /\ SessionFrame

RefreshRejects(status) ==
  /\ "refresh" \in calls
  /\ calls' = calls \ {"refresh"}
  /\ session' = Failed("Session expired")
  /\ authStore' = SignedOut
  /\ storage' = NoItems
  /\ page' = [UnauthorizedPage(status, page) EXCEPT !.toast = "Sessao Expirada"]
  /\ UNCHANGED <<appStore, cacheVars>>
  /\ SessionFrame

\* useSession's logout.
logoutSession ==
  /\ PageReady
  /\ session.isAuthenticated
  /\ session' = [isLoading |-> FALSE, isAuthenticated |-> FALSE,
                 user |-> FALSE, error |-> "null"]
  /\ authStore' = SignedOut
  /\ storage' = NoItems
  /\ page' = [page EXCEPT !.toast = "Logout Realizado"]
  /\ UNCHANGED <<appStore, calls, cacheVars>>
  /\ SessionFrame

\* useAuthStore.actions.logout called by a component.
AuthLogout ==
  /\ PageReady
  /\ authStore.isAuthenticated
  /\ authStore' = SignedOut
  /\ storage' = NoItems
  /\ UNCHANGED <<session, appStore, calls, page, cacheVars>>
  /\ SessionFrame

\* useAppStore.actions.logout called by a component.
AppStoreLogout ==
  /\ PageReady
  /\ appStore.isAuthenticated
  /\ appStore' = AppLogout(appStore)
  /\ UNCHANGED <<session, authStore, storage, calls, page, cacheVars>>
  /\ SessionFrame

\* The fetch of a query is answered 401: the interceptor's
\* handleUnauthorized runs and the query keeps the data it has.
FetchUnauthorized(k) ==
  /\ cache[k].fetching
  /\ cache' = [cache EXCEPT ![k].fetching = FALSE, ![k].origin = 0]
  /\ storage' = UnauthorizedStorage(401, storage)
  /\ page' = UnauthorizedPage(401, page)
  /\ UNCHANGED <<session, authStore, appStore, calls, server, muts, ops, scope>>
  /\ SessionFrame

\* handleUnauthorized's timer sets window.location.href: /login is loaded.
Redirect ==
  /\ page.redirect
  /\ LoadPage
  /\ SessionFrame

\* The user reloads the page or opens the app again.
Reload ==
  /\ PageReady
  /\ ~page.redirect
  /\ LoadPage
  /\ SessionFrame

SessionNext ==
  \/ InitializeApp
  \/ InitializeSession
  \/ \E c \in {"me", "meAfterRefresh"} : MeResolves(c)
  \/ \E c \in {"me", "meAfterRefresh"}, status \in AuthStatuses : MeRejects(c, status)
  \/ Login
  \/ LoginResolves
  \/ \E status \in AuthStatuses : LoginRejects(status)
  \/ RefreshSession
  \/ RefreshResolves
  \/ \E status \in AuthStatuses : RefreshRejects(status)
  \/ logoutSession
  \/ AuthLogout
  \/ AppStoreLogout
  \/ FetchUnauthorized(KAgents)
  \/ Redirect
  \/ Reload
  \/ Subscribe(KAgents)
  \/ FetchSettles(KAgents, TRUE)

\* ------------------------------------------- useAbortableInterval
\* healthHistory keeps the last 20 results (slice(-19) plus the new one).
HistoryKept == 20

\* A setAbortableInterval that leaves the previous timer running.
setAbortableInterval_Keep(ts, ref, n) ==
  [timers |-> ts \cup {n + 1}, intervalRef |-> n + 1, created |-> n + 1]

\* setAbortableInterval, lines 97-131: clears the timer of the ref, creates
\* a timer and stores it in the ref.
setAbortableInterval(ts, ref, n) ==
  [timers |-> (ts \ {ref}) \cup {n + 1}, intervalRef |-> n + 1, created |-> n + 1]

\* clearAbortableInterval, lines 133-138; also the abort listener, lines
\* 123-128.
clearAbortableInterval(ts, ref) ==
  [timers |-> ts \ {ref}, intervalRef |-> 0]

\* The state after the first render: the hook's useAbortController has
\* created its controller (signal: getSignal()), no timer exists.
TimerIdle ==
  /\ timers = {}
  /\ created = 0
  /\ intervalRef = 0
  /\ monitor = [mounted |-> TRUE, aborted |-> FALSE, listening |-> FALSE,
                isMonitoring |-> FALSE, rendered |-> FALSE, history |-> <<>>,
                ticks |-> 0, pending |-> 0]

\* The component re-renders: startMonitoring closes over the current
\* isMonitoring.
Render ==
  /\ monitor.mounted
  /\ monitor.rendered # monitor.isMonitoring
  /\ monitor' = [monitor EXCEPT !.rendered = monitor.isMonitoring]
  /\ UNCHANGED <<timers, created, intervalRef>>
  /\ TimerFrame

\* startMonitoring, lines 144-180; it returns at once when the isMonitoring
\* of its render is true.
StartMonitoring ==
  /\ monitor.mounted
  /\ ~monitor.rendered
  /\ created < MaxTimers
  /\ LET t == setAbortableInterval(timers, intervalRef, created) IN
       /\ timers' = t.timers
       /\ intervalRef' = t.intervalRef
       /\ created' = t.created
  /\ monitor' = [monitor EXCEPT !.isMonitoring = TRUE, !.listening = TRUE]
  /\ TimerFrame

\* stopMonitoring, lines 182-185.
StopMonitoring ==
  /\ monitor.mounted
  /\ LET t == clearAbortableInterval(timers, intervalRef) IN
       /\ timers' = t.timers
       /\ intervalRef' = t.intervalRef
  /\ monitor' = [monitor EXCEPT !.isMonitoring = FALSE]
  /\ UNCHANGED created
  /\ TimerFrame

\* A component using useAbortableInterval directly sets an interval.
SetAbortableInterval ==
  /\ monitor.mounted
  /\ created < MaxTimers
  /\ LET t == setAbortableInterval(timers, intervalRef, created) IN
       /\ timers' = t.timers
       /\ intervalRef' = t.intervalRef
       /\ created' = t.created
  /\ monitor' = [monitor EXCEPT !.listening = TRUE]
  /\ TimerFrame

\* ... and clears it.
ClearAbortableInterval ==
  /\ monitor.mounted
  /\ intervalRef # 0
  /\ LET t == clearAbortableInterval(timers, intervalRef) IN
       /\ timers' = t.timers
       /\ intervalRef' = t.intervalRef
  /\ UNCHANGED <<created, monitor>>
  /\ TimerFrame

\* A setHealthHistory that keeps every entry.
keepLast_All(history, entry) == Append(history, entry)

\* setHealthHistory(prev => [...prev.slice(-19), healthStatus]), part_004
\* lines 165 and 177: the last 19 entries and the new one.
keepLast(history, entry) ==
  LET n == Len(history) IN
    Append(IF n > HistoryKept - 1
           THEN SubSeq(history, n - (HistoryKept - 2), n)
           ELSE history,
           entry)

\* The callback of startMonitoring after its await, part_004 lines 155-178:
\* an AbortError returns at once, every other outcome appends an entry (the
\* entry is named by its tick; its fields are not modelled). React drops the
\* state update of an unmounted component.
MonitorSettled(history, tick, error, isMounted) ==
  IF error # NoError /\ error.name = "AbortError" THEN history
  ELSE IF isMounted THEN keepLast(history, tick)
  ELSE history

\* Timer t fires: wrappedCallback returns at once on an aborted signal,
\* otherwise the callback sends its health request. The request times out
\* after 10 s and the interval is 60 s, so the previous one has settled.
Tick(t) ==
  /\ t \in timers
  /\ ~monitor.aborted
  /\ monitor.pending = 0
  /\ monitor.ticks < MaxTicks
  /\ monitor' = [monitor EXCEPT !.ticks = @ + 1, !.pending = monitor.ticks + 1]
  /\ UNCHANGED <<timers, created, intervalRef>>
  /\ TimerFrame

\* The health request of the pending tick settles and the callback goes on.
TickSettles(status) ==
  /\ monitor.pending # 0
  /\ monitor' = [monitor EXCEPT
                   !.pending = 0,
                   !.history = MonitorSettled(@, monitor.pending,
                                 SettledError("monitor", monitor.aborted, status),
                                 monitor.mounted)]
  /\ UNCHANGED <<timers, created, intervalRef>>
  /\ TimerFrame

\* The component unmounts; the cleanups run in the order of the hooks: the
\* controller is aborted and its abort listeners clear the timer of the ref
\* (useAbortController.ts:40-46, 123-128), the interval cleanup clears the
\* timer of the ref (141-147), stopMonitoring clears it again (part_004:
\* 188-192).
UnmountMonitor ==
  /\ monitor.mounted
  /\ LET a == IF monitor.listening
              THEN clearAbortableInterval(timers, intervalRef)
              ELSE [timers |-> timers, intervalRef |-> intervalRef]
         b == [timers |-> a.timers \ {a.intervalRef}, intervalRef |-> a.intervalRef]
         c == clearAbortableInterval(b.timers, b.intervalRef)
     IN /\ timers' = c.timers
        /\ intervalRef' = c.intervalRef
  /\ monitor' = [monitor EXCEPT !.mounted = FALSE, !.aborted = TRUE]
  /\ UNCHANGED created
  /\ TimerFrame

TimerNext ==
  \/ Render
  \/ StartMonitoring
  \/ StopMonitoring
  \/ SetAbortableInterval
  \/ ClearAbortableInterval
  \/ \E t \in 1..MaxTimers : Tick(t)
  \/ \E status \in Statuses : TickSettles(status)
  \/ UnmountMonitor

\* -------------------------------- useAppStore loading and error maps
\* The resources whose list query reports to the store.
Resources == {"agents", "tasks"}

\* Error messages a failed read carries; an ApiError may have an empty one.
Messages == {"", "HTTP 500", "Network Error"}

\* The lists a read may return.
Lists == {"empty", "listA", "listB"}

\* The key is missing from state.errors.
NoMessage == "undefined"

\* A setError that also drops the resource's data.
setError_Reset(st, key, error) ==
  IF error = "" \/ error = NoMessage THEN [st EXCEPT !.errors[key] = NoMessage]
  ELSE [st EXCEPT !.errors[key] = error, ![key] = "empty"]

\* setError, lines 340-347: a truthy error is stored under the key, a falsy
\* one (null, undefined, the empty string) deletes the key.
setError(st, key, error) ==
  [st EXCEPT !.errors[key] = IF error = "" \/ error = NoMessage THEN NoMessage ELSE error]

\* setLoading, lines 334-337.
setLoading(st, key, value) == [st EXCEPT !.loading[key] = value]

\* setAgents / setTasks, lines 227-230 and 251-254.
setData(st, key, data) == [st EXCEPT ![key] = data]

\* The query's onSuccess, part_006:39-43 and 160-166 (the task list is
\* stored only when the hook was called without filters).
OnSuccess(st, key, data, stored) ==
  setError(setLoading(IF stored THEN setData(st, key, data) ELSE st, key, FALSE),
           key, NoMessage)

\* The query's onError, part_006:44-52 and 167-170.
OnError(st, key, message) == setLoading(setError(st, key, message), key, FALSE)

StoreInit ==
  /\ store = [agents |-> "empty", tasks |-> "empty",
              loading |-> [r \in Resources |-> FALSE],
              errors |-> [r \in Resources |-> NoMessage]]
  /\ reads = [r \in Resources |->
                [data |-> NoMessage, status |-> "pending", fetching |-> FALSE]]

\* A component flags a resource as loading or not.
SetLoading(key, value) ==
  /\ store' = setLoading(store, key, value)
  /\ UNCHANGED reads
  /\ StoreFrame

\* A component records or clears an error of a resource.
SetError(key, error) ==
  /\ store' = setError(store, key, error)
  /\ UNCHANGED reads
  /\ StoreFrame

\* clearErrors, lines 349-352.
ClearErrors ==
  /\ store' = [store EXCEPT !.errors = [r \in Resources |-> NoMessage]]
  /\ UNCHANGED reads
  /\ StoreFrame

\* The list query of resource key starts a fetch.
ReadStarts(key) ==
  /\ ~reads[key].fetching
  /\ reads' = [reads EXCEPT ![key].fetching = TRUE]
  /\ UNCHANGED store
  /\ StoreFrame

\* The fetch succeeds: the query takes the data and onSuccess runs.
ReadSucceeds(key, data, stored) ==
  /\ reads[key].fetching
  /\ key = "agents" => stored
  /\ reads' = [reads EXCEPT ![key] =
                 [data |-> data, status |-> "success", fetching |-> FALSE]]
  /\ store' = OnSuccess(store, key, data, stored)
  /\ StoreFrame

\* The fetch fails for good: the query keeps its data, takes the error
\* status, and onError runs.
ReadFails(key, message) ==
  /\ reads[key].fetching
  /\ reads' = [reads EXCEPT ![key].status = "error", ![key].fetching = FALSE]
  /\ store' = OnError(store, key, message)
  /\ StoreFrame

StoreNext ==
  \/ \E key \in Resources, value \in BOOLEAN : SetLoading(key, value)
  \/ \E key \in Resources, error \in Messages \cup {NoMessage} : SetError(key, error)
  \/ ClearErrors
  \/ \E key \in Resources : ReadStarts(key)
  \/ \E key \in Resources, data \in Lists, stored \in BOOLEAN :
       ReadSucceeds(key, data, stored)
  \/ \E key \in Resources, message \in Messages : ReadFails(key, message)

StoreIdle == StoreInit

\* ------------------------------------ useAppStore user and notifications
\* addNotification keeps the 50 newest notifications.
NotificationsKept == 50

\* user: null
NoUser == [id |-> 0, name |-> "null"]

\* The users setUser is called with, and the names updateUser may set.
Names == {"John", "Jane"}
Users == {[id |-> 1, name |-> n] : n \in Names}

\* An addNotification that appends at the end and never trims.
addNotification_Append(list, n) == Append(list, [id |-> n, read |-> FALSE])

\* addNotification, lines 299-313: unshift the new notification, unread,
\* then keep the first 50. n stands for its id and its createdAt.
addNotification(list, n) ==
  LET added == <<[id |-> n, read |-> FALSE]>> \o list IN
    IF Len(added) > NotificationsKept
    THEN SubSeq(added, 1, NotificationsKept)
    ELSE added

\* markNotificationRead, lines 315-321.
markNotificationRead(list, id) ==
  [i \in 1..Len(list) |-> IF list[i].id = id THEN [list[i] EXCEPT !.read = TRUE]
                          ELSE list[i]]

\* removeNotification, lines 323-326.
removeNotification(list, id) == SelectSeq(list, LAMBDA n : n.id # id)

\* A setUser that leaves isAuthenticated as it is.
setUser_KeepFlag(st, user) == [st EXCEPT !.user = user]

\* setUser, lines 203-207.
setUser(st, user) == [st EXCEPT !.user = user, !.isAuthenticated = (user # NoUser)]

\* updateUser, lines 209-214.
updateUser(st, name) ==
  IF st.user # NoUser THEN [st EXCEPT !.user.name = name] ELSE st

\* initialState, lines 121-129; also what reset() restores.
InitialApp == [user |-> NoUser, isAuthenticated |-> FALSE, notifications |-> <<>>]

AppInit ==
  /\ app = InitialApp
  /\ clock = 0
  /\ edits = 0

SetUser(user) ==
  /\ app' = setUser(app, user)
  /\ UNCHANGED <<clock, edits>>
  /\ AppFrame

UpdateUser(name) ==
  /\ app' = updateUser(app, name)
  /\ UNCHANGED <<clock, edits>>
  /\ AppFrame

\* logout, lines 216-224 (the lists of agents, tasks and campaigns are not
\* part of this state).
StoreLogout ==
  /\ edits < MaxEdits
  /\ app' = [app EXCEPT !.user = NoUser, !.isAuthenticated = FALSE,
                        !.notifications = <<>>]
  /\ edits' = edits + 1
  /\ UNCHANGED clock
  /\ AppFrame

\* reset, lines 447-451.
StoreReset ==
  /\ edits < MaxEdits
  /\ app' = InitialApp
  /\ edits' = edits + 1
  /\ UNCHANGED clock
  /\ AppFrame

AddNotification ==
  /\ clock < MaxAdds
  /\ app' = [app EXCEPT !.notifications = addNotification(@, clock + 1)]
  /\ clock' = clock + 1
  /\ UNCHANGED edits
  /\ AppFrame

\* A component marks the newest or the oldest notification as read.
MarkNotificationRead(i) ==
  /\ edits < MaxEdits
  /\ i \in {1, Len(app.notifications)}
  /\ i >= 1
  /\ app' = [app EXCEPT !.notifications =
               markNotificationRead(@, app.notifications[i].id)]
  /\ edits' = edits + 1
  /\ UNCHANGED clock
  /\ AppFrame

\* A component, or AppProvider's expiry sweep, removes the newest or the
\* oldest notification.
RemoveNotification(i) ==
  /\ edits < MaxEdits
  /\ i \in {1, Len(app.notifications)}
  /\ i >= 1
  /\ app' = [app EXCEPT !.notifications =
               removeNotification(@, app.notifications[i].id)]
  /\ edits' = edits + 1
  /\ UNCHANGED clock
  /\ AppFrame

\* clearNotifications, lines 328-331.
ClearNotifications ==
  /\ edits < MaxEdits
  /\ app.notifications # <<>>
  /\ app' = [app EXCEPT !.notifications = <<>>]
  /\ edits' = edits + 1
  /\ UNCHANGED clock
  /\ AppFrame

AppNext ==
  \/ \E user \in Users \cup {NoUser} : SetUser(user)
  \/ \E name \in Names : UpdateUser(name)
  \/ StoreLogout
  \/ StoreReset
  \/ AddNotification
  \/ \E i \in 1..NotificationsKept : MarkNotificationRead(i)
  \/ \E i \in 1..NotificationsKept : RemoveNotification(i)
  \/ ClearNotifications

\* --------------------------------------- useSession auto-refresh effect
\* setSessionState of a handler: React drops the update of an unmounted
\* component.
setSessionState(h, isAuthenticated) ==
  IF h.mounted THEN [h EXCEPT !.isAuthenticated = isAuthenticated] ELSE h

\* An effect run that sets its interval without the cleanup of the last run.
runEffect_NoCleanup(h) ==
  [h EXCEPT !.effect = h.isAuthenticated,
            !.timers = IF h.isAuthenticated THEN @ + 1 ELSE @]

\* The effect of lines 255-264 re-runs for a changed isAuthenticated: the
\* cleanup of the last run clears its interval, then an interval is set if
\* the session is authenticated.
runEffect(h) ==
  [h EXCEPT !.effect = h.isAuthenticated,
            !.timers = (IF h.effect THEN @ - 1 ELSE @)
                       + (IF h.isAuthenticated THEN 1 ELSE 0)]

\* The hook after its first render and its mount effects: the state is not
\* authenticated, the effect ran and set no interval, initializeSession has
\* called validateSession, which is waiting for /api/v1/auth/me or has
\* failed at once for lack of a token.
HookInit ==
  /\ hook \in {[mounted |-> TRUE, isAuthenticated |-> FALSE, effect |-> FALSE,
                timers |-> 0, inflight |-> i, fired |-> 0] : i \in {{}, {"me"}}}

HookIdle ==
  hook = [mounted |-> TRUE, isAuthenticated |-> FALSE, effect |-> FALSE,
          timers |-> 0, inflight |-> {}, fired |-> 0]

\* React commits the render of a changed session state and runs the effect.
FlushEffects ==
  /\ hook.mounted
  /\ hook.effect # hook.isAuthenticated
  /\ hook' = runEffect(hook)
  /\ HookFrame

\* login() is called, lines 168-229.
HookLogin ==
  /\ hook.mounted
  /\ "login" \notin hook.inflight
  /\ hook' = [hook EXCEPT !.inflight = @ \cup {"login"}]
  /\ HookFrame

\* The login request settles: success sets the session authenticated, a
\* failure keeps isAuthenticated as it is.
HookLoginSettles(ok) ==
  /\ "login" \in hook.inflight
  /\ hook' = [(IF ok THEN setSessionState(hook, TRUE) ELSE hook)
                EXCEPT !.inflight = @ \ {"login"}]
  /\ HookFrame

\* The interval fires and calls refreshSession, lines 94-144: without a
\* refresh token it fails at once, otherwise its request is sent.
RefreshTimerFires(hasToken) ==
  /\ hook.timers > 0
  /\ hook.fired < MaxFires
  /\ "refresh" \notin hook.inflight
  /\ hook' = [(IF hasToken THEN [hook EXCEPT !.inflight = @ \cup {"refresh"}]
               ELSE setSessionState(hook, FALSE))
                EXCEPT !.fired = @ + 1]
  /\ HookFrame

\* The refresh request settles: success goes on to validateSession, a
\* failure sets the session not authenticated.
HookRefreshSettles(ok) ==
  /\ "refresh" \in hook.inflight
  /\ hook' = [(IF ok THEN [hook EXCEPT !.inflight = @ \cup {"me"}]
               ELSE setSessionState(hook, FALSE))
                EXCEPT !.inflight = @ \ {"refresh"}]
  /\ HookFrame

\* The /api/v1/auth/me request of validateSession settles, lines 64-91.
HookMeSettles(ok) ==
  /\ "me" \in hook.inflight
  /\ hook' = [setSessionState(hook, ok) EXCEPT !.inflight = @ \ {"me"}]
  /\ HookFrame

\* logoutSession, lines 231-248.
HookLogout ==
  /\ hook.mounted
  /\ hook.isAuthenticated
  /\ hook' = setSessionState(hook, FALSE)
  /\ HookFrame

\* The component using the hook unmounts: the cleanup of the last effect
\* run clears its interval.
UnmountHook ==
  /\ hook.mounted
  /\ hook' = [hook EXCEPT !.mounted = FALSE,
                          !.timers = IF hook.effect THEN @ - 1 ELSE @]
  /\ HookFrame

HookNext ==
  \/ FlushEffects
  \/ HookLogin
  \/ \E ok \in BOOLEAN : HookLoginSettles(ok)
  \/ \E hasToken \in BOOLEAN : RefreshTimerFires(hasToken)
  \/ \E ok \in BOOLEAN : HookRefreshSettles(ok)
  \/ \E ok \in BOOLEAN : HookMeSettles(ok)
  \/ HookLogout
  \/ UnmountHook

\* ------------------------ useAbortableInterval and useAbortableTimeout
\* The two timer hooks of one component. Each has its own ref and its own
\* useAbortController, whose controller exists from the first render and is
\* aborted by the unmount cleanup; the functions the hooks return can still
\* be called after the unmount by a closure that kept them.
Kinds == {"interval", "timeout"}

\* A wrapped callback that calls the user callback whatever the signal.
wrappedCallback_NoCheck(started, aborted) == started + 1

\* wrappedCallback, lines 108-118 and 171-181: the number of user callbacks
\* started so far, after a firing with the signal (not) aborted.
wrappedCallback(started, aborted) == IF aborted THEN started ELSE started + 1

\* setAbortableInterval, lines 97-131, and setAbortableTimeout, lines
\* 160-194: the timer of the ref is cleared, a timer on the signal of
\* getSignal() is set and an abort listener is added, which an already
\* aborted signal will never call.
setAbortable(a, kind) ==
  [a EXCEPT !.active[kind] = (@ \ {a.ref[kind]}) \cup {a.created[kind] + 1},
            !.ref[kind] = a.created[kind] + 1,
            !.created[kind] = @ + 1,
            !.listening[kind] = @ \/ ~a.aborted]

\* clearAbortableInterval, lines 133-138, clearAbortableTimeout, lines
\* 196-201, and the abort listener: clear the timer of the ref and null it.
clearAbortable(a, kind) ==
  [a EXCEPT !.active[kind] = @ \ {a.ref[kind]}, !.ref[kind] = 0]

\* The unmount cleanups of one hook: the abort of its controller calls the
\* listeners, then the timer of the ref is cleared and the ref is kept.
cleanupAbortable(a, kind) ==
  LET b == IF a.listening[kind] THEN clearAbortable(a, kind) ELSE a
  IN [b EXCEPT !.active[kind] = @ \ {b.ref[kind]}]

AbortableInit ==
  abortable = [mounted |-> TRUE, aborted |-> FALSE,
               ref |-> [k \in Kinds |-> 0],
               active |-> [k \in Kinds |-> {}],
               listening |-> [k \in Kinds |-> FALSE],
               created |-> [k \in Kinds |-> 0],
               fired |-> 0, firedLate |-> 0, started |-> 0]

SetAbortable(kind) ==
  /\ abortable.created[kind] < MaxTimers
  /\ abortable' = setAbortable(abortable, kind)
  /\ AbortableFrame

ClearAbortable(kind) ==
  /\ abortable.ref[kind] # 0
  /\ abortable' = clearAbortable(abortable, kind)
  /\ AbortableFrame

\* Timer t fires and runs its wrapped callback; a timeout fires once.
AbortableFires(kind, t) ==
  /\ t \in abortable.active[kind]
  /\ abortable.fired < MaxFirings
  /\ abortable' =
       [abortable EXCEPT
          !.started = wrappedCallback(@, abortable.aborted),
          !.fired = @ + 1,
          !.firedLate = IF abortable.aborted THEN @ + 1 ELSE @,
          !.active[kind] = IF kind = "timeout" THEN @ \ {t} ELSE @]
  /\ AbortableFrame

\* The component unmounts: the cleanups of both hooks run.
UnmountAbortable ==
  /\ abortable.mounted
  /\ abortable' =
       [cleanupAbortable(cleanupAbortable(abortable, "interval"), "timeout")
          EXCEPT !.mounted = FALSE, !.aborted = TRUE]
  /\ AbortableFrame

AbortableNext ==
  \/ \E kind \in Kinds : SetAbortable(kind)
  \/ \E kind \in Kinds : ClearAbortable(kind)
  \/ \E kind \in Kinds, t \in 1..MaxTimers : AbortableFires(kind, t)
  \/ UnmountAbortable

\* ------------------------------------------ ApiService.request (fetch)
\* What fetch does for a call: it rejects with a TypeError (no connection),
\* or it resolves with a response of some status and body. The bodies: a
\* JSON object with a detail field, a JSON object without one, the JSON
\* value null, and a body that is not JSON (empty, as with a 204, or HTML).
Methods == {"GET", "POST", "PUT", "DELETE"}
ResponseStatuses == {200, 204, 400, 404, 500}
Bodies == {"withDetail", "withoutDetail", "null", "notJson"}

Outcomes ==
  {[fetch |-> "TypeError", status |-> 0, body |-> "notJson"]}
    \cup [fetch : {"response"}, status : ResponseStatuses, body : Bodies]

\* response.ok
Ok(status) == status >= 200 /\ status <= 299

Pending == [settled |-> "pending", type |-> "none", status |-> 0,
            message |-> "none", payload |-> "none"]

Resolved(data, status) ==
  [settled |-> "resolved", type |-> "ApiResponse", status |-> status,
   message |-> "none", payload |-> data]

\* A rejection with an object literal cast to ApiError.
RejectedApiError(message, status, details) ==
  [settled |-> "rejected", type |-> "ApiError", status |-> status,
   message |-> message, payload |-> details]

\* A rejection with an exception that request() rethrows as it is.
RejectedRaw(type) ==
  [settled |-> "rejected", type |-> type, status |-> 0,
   message |-> "none", payload |-> "none"]

NetworkError == RejectedApiError("Erro de conexao com o servidor", 0, "TypeError")

\* errorData.detail || `HTTP ${response.status}`
ErrorMessage(errorData, status) ==
  IF errorData = "withDetail" THEN "detail" ELSE "HTTP " \o ToString(status)

\* ApiService.request: every exception of the try block that is a TypeError
\* is turned into the network error, every other one is rethrown.
request(outcome) ==
  IF outcome.fetch = "TypeError" THEN NetworkError
  ELSE IF ~Ok(outcome.status)
  THEN LET errorData == IF outcome.body = "notJson" THEN "{}" ELSE outcome.body IN
         IF errorData = "null"
         THEN NetworkError  \* reading null.detail throws a TypeError
         ELSE RejectedApiError(ErrorMessage(errorData, outcome.status),
                               outcome.status, errorData)
  ELSE IF outcome.body = "notJson"
  THEN RejectedRaw("SyntaxError")  \* response.json() rejects
  ELSE Resolved(outcome.body, outcome.status)

ApiIdle ==
  call = [method |-> "GET",
          outcome |-> [fetch |-> "TypeError", status |-> 0, body |-> "notJson"],
          result |-> Pending]

ApiInit ==
  \E m \in Methods, o \in Outcomes :
    call = [method |-> m, outcome |-> o, result |-> Pending]

\* get / post / put / delete: the call settles as request() says.
RequestSettles ==
  /\ call.result = Pending
  /\ call' = [call EXCEPT !.result = request(call.outcome)]
  /\ ApiFrame

\* The next call of the service.
NextRequest(m, o) ==
  /\ call.result # Pending
  /\ call' = [method |-> m, outcome |-> o, result |-> Pending]
  /\ ApiFrame

ApiNext ==
  \/ RequestSettles
  \/ \E m \in Methods, o \in Outcomes : NextRequest(m, o)

RetryIdle == job = RetryIdleJob

InitCache == AbortInit /\ RetryIdle /\ CacheInit /\ SessionInit /\ ApiIdle /\ TimerIdle /\ StoreIdle /\ AppInit /\ HookIdle /\ AbortableInit
InitAbort == AbortInit /\ RetryIdle /\ CacheIdleInit /\ SessionInit /\ ApiIdle /\ TimerIdle /\ StoreIdle /\ AppInit /\ HookIdle /\ AbortableInit
InitRetry == AbortInit /\ RetryInit /\ CacheIdleInit /\ SessionInit /\ ApiIdle /\ TimerIdle /\ StoreIdle /\ AppInit /\ HookIdle /\ AbortableInit
InitSession == AbortInit /\ RetryIdle /\ CacheIdleInit /\ SessionInit /\ ApiIdle /\ TimerIdle /\ StoreIdle /\ AppInit /\ HookIdle /\ AbortableInit
InitApi == AbortInit /\ RetryIdle /\ CacheIdleInit /\ SessionInit /\ ApiInit /\ TimerIdle /\ StoreIdle /\ AppInit /\ HookIdle /\ AbortableInit
InitTimer == AbortInit /\ RetryIdle /\ CacheIdleInit /\ SessionInit /\ ApiIdle /\ TimerIdle /\ StoreIdle /\ AppInit /\ HookIdle /\ AbortableInit
InitStore == AbortInit /\ RetryIdle /\ CacheIdleInit /\ SessionInit /\ ApiIdle /\ TimerIdle /\ StoreInit /\ AppInit /\ HookIdle /\ AbortableInit
InitApp == AbortInit /\ RetryIdle /\ CacheIdleInit /\ SessionInit /\ ApiIdle /\ TimerIdle /\ StoreIdle /\ AppInit /\ HookIdle /\ AbortableInit
InitAbortable == AbortInit /\ RetryIdle /\ CacheIdleInit /\ SessionInit /\ ApiIdle /\ TimerIdle /\ StoreIdle /\ AppInit /\ HookIdle /\ AbortableInit
InitHook == AbortInit /\ RetryIdle /\ CacheIdleInit /\ SessionInit /\ ApiIdle /\ TimerIdle /\ StoreIdle /\ AppInit /\ HookInit /\ AbortableInit

SpecCache == InitCache /\ [][CacheNext]_vars
SpecAbort == InitAbort /\ [][AbortNext]_vars
SpecRetry == InitRetry /\ [][RetryNext]_vars
SpecSession == InitSession /\ [][SessionNext]_vars
SpecApi == InitApi /\ [][ApiNext]_vars
SpecTimer == InitTimer /\ [][TimerNext]_vars
SpecStore == InitStore /\ [][StoreNext]_vars
SpecApp == InitApp /\ [][AppNext]_vars
SpecHook == InitHook /\ [][HookNext]_vars
SpecAbortable == InitAbortable /\ [][AbortableNext]_vars

\* ---------------------------------------------- properties of SpecAbort
LiveControllers == {i \in 1..Len(ctrls) : ~ctrls[i]}

\* Requests started through createController (abortableFetch,
\* runConnectivityTest) that are in flight and not cancelled.
LiveCreated ==
  {r \in InFlight : reqs[r].kind \in {"fetch", "connectivity"} /\ ~ctrls[reqs[r].ctrl]}

\* C2: of the controllers one hook instance has created, at most one is not
\* aborted, and at most one request started through createController is in
\* flight with a signal that is not aborted.
C2_AtMostOneLive ==
  /\ Cardinality(LiveControllers) <= 1
  /\ Cardinality(LiveCreated) <= 1

\* Two requests in flight, the earlier superseded, the later live.
C2_Witness ==
  /\ Cardinality({r \in InFlight : reqs[r].kind \in {"fetch", "connectivity"}}) >= 2
  /\ Cardinality(LiveCreated) = 1

\* The position of request r among the runConnectivityTest calls.
ConnectivityIndex(r) ==
  Cardinality({q \in 1..r : reqs[q].kind = "connectivity"})

\* C3: testResults is only ever written by the completion of the latest
\* runConnectivityTest call started: an earlier call that settles after a
\* later one has started (as success, failure or abort) writes nothing.
C3_NoLateWrite ==
  testResults.req # 0 => ConnectivityIndex(testResults.req) = testResults.latest

\* C5: a request that settled because its signal was aborted shows no toast,
\* is not recorded as a failed connectivity test, and is not counted as a
\* failed health check attempt.
C5_AbortSilent ==
  \A r \in 1..Len(reqs) :
    reqs[r].state = "canceled" =>
      /\ \A t \in toasts : t.req # r
      /\ testResults.req # r
      /\ ~(health.req = r /\ health.status \in {"retrying", "error"})

\* ---------------------------------------------- properties of SpecRetry
Transient(status) == status = 0 \/ status >= 500

\* The most invocations one mutate call makes under a configuration.
MutationCallLimit(config) == IF config = "app" THEN 2 ELSE 1

\* C4 as stated: the write function of a mutate call is invoked at most once.
C4_AtMostOnce == job.kind = "mutation" => job.calls <= 1

\* C4 amended: under AppProvider's QueryClient (mutations.retry = 1) the write
\* function is invoked at most twice, the rejection reaching the caller only
\* after the one automatic retry has failed too; under a client that sets no
\* mutation retry it is invoked once.
C4_AtMostOneRetry ==
  job.kind = "mutation" =>
    /\ job.calls <= MutationCallLimit(job.config)
    /\ job.status = "error" => job.calls = MutationCallLimit(job.config)
    /\ job.status = "waiting" => job.calls < MutationCallLimit(job.config)

\* A mutate call whose write was rejected twice and has reached the caller.
C4_Witness ==
  /\ job.kind = "mutation"
  /\ job.config = "app"
  /\ job.status = "error"
  /\ job.calls = 2
  /\ Len(job.errors) = 2

AllTransient == \A i \in 1..Len(job.errors) : Transient(job.errors[i])

\* C10 as stated: a read that keeps failing with a network error or a 5xx is
\* invoked at most 3 times in one fetch cycle.
C10_AtMostThree ==
  (job.kind = "query" /\ AllTransient) => job.calls <= 3

\* C10 amended: such a read is invoked at most 4 times in one fetch cycle (the
\* first attempt and 3 retries); it is in the Error state exactly after the
\* 4th failure, and until a new trigger nothing is pending any more.
C10_AtMostFour ==
  (job.kind = "query" /\ job.config # "test" /\ AllTransient) =>
    /\ job.calls <= 4
    /\ job.status = "error" => (job.calls = 4 /\ Len(job.errors) = 4)
    /\ job.status = "waiting" => job.calls < 4

\* A read of AppProvider's client that failed 4 times with transient errors.
C10_Witness ==
  /\ job.kind = "query"
  /\ job.config = "app"
  /\ job.status = "error"
  /\ job.calls = 4
  /\ AllTransient

\* ------------------------------------------- properties of the query cache
\* The step is the last error handler of mutation m's write.
RolledBack(m) ==
  /\ m \in 1..Len(muts)
  /\ muts[m].phase = "pending"
  /\ muts'[m].phase = "error"

\* The step is the success handler of mutation m's write.
Succeeded(m) ==
  /\ m \in 1..Len(muts)
  /\ muts[m].phase = "pending"
  /\ muts'[m].phase = "success"

\* The step is the completion of a fetch of key k (not its cancellation by
\* an onMutate nor the removal of the query).
FetchCompleted(k) ==
  /\ cache[k].fetching
  /\ ~cache'[k].fetching
  /\ ops' = ops
  /\ \A m \in 1..Len(muts) : muts'[m].phase = muts[m].phase

\* C1: when the write of an optimistic mutation rejects and nobody else wrote
\* the keys its onMutate changed, then after the error handler every one of
\* those keys (filtered keys and keys without data included) holds the data
\* it held right before onMutate.
C1_RollbackExact ==
  [][\A m \in 1..Len(muts) :
       (RolledBack(m) /\ muts[m].writers = {}) =>
         \A k \in muts[m].patched : cache'[k].data = muts[m].pre[k]]_vars

\* The resource prefix of a mutation: ['agents'] or ['tasks'].
ResourcePrefix(kind) == IF kind = "updateTaskStatus" THEN KTasks ELSE KAgents

\* C7 as stated: after a successful agent (task) mutation every cached query
\* under ['agents'] (['tasks']) and the dashboard-stats query is marked stale
\* or is being refetched.
C7_AllStale ==
  [][\A m \in 1..Len(muts) : Succeeded(m) =>
       \A k \in Keys :
         (cache'[k].present /\ (Matches(ResourcePrefix(muts[m].kind), k) \/ k = KStats))
           => (cache'[k].invalidated \/ cache'[k].fetching)]_vars

\* The cached queries a successful mutation leaves stale or refetching.
LeftStale(kind, k, c) ==
  CASE kind = "updateAgentStatus" -> Matches(KAgents, k)
    [] kind = "updateTaskStatus" -> Matches(KTasks, k)
    [] kind = "createAgent" -> Matches(KAgents, k) /\ (k # KAgents \/ c[k].active)
    [] kind = "useUpdateAgent" -> Matches(KAgentLists, k) \/ k = KAgentDetail
    [] OTHER -> Matches(KAgentLists, k)

\* C7 amended: after a successful mutation every cached query under the
\* prefix its handlers invalidate is marked stale or is being refetched:
\* all of ['agents', ...] / ['tasks', ...] for the status mutations, the
\* ['agents', 'list', ...] keys (and the agent's detail key for
\* useUpdateAgent) for the useAgents hooks, and for createAgent all of
\* ['agents', ...] except an unmounted ['agents'] query, which holds the
\* extended list as fresh data.
C7_InvalidatedPrefix ==
  [][\A m \in 1..Len(muts) : Succeeded(m) =>
       \A k \in Keys :
         (cache[k].present /\ cache'[k].present /\ LeftStale(muts[m].kind, k, cache))
           => (cache'[k].invalidated \/ cache'[k].fetching)]_vars

\* A status change succeeded while a filtered agent list and the dashboard
\* stats were cached: the list is stale, the stats are not.
C7_Witness ==
  /\ \E m \in 1..Len(muts) :
       muts[m].kind = "updateAgentStatus" /\ muts[m].phase = "success"
  /\ cache[KAgentList].present /\ cache[KAgentList].invalidated
  /\ cache[KStats].data.has /\ ~cache[KStats].invalidated /\ ~cache[KStats].fetching

\* Whether data shows the optimistic patch of mutation mut.
ShowsPatch(mut, data) ==
  /\ data.has
  /\ IF mut.kind = "useDeleteAgent" THEN data.items = <<>>
     ELSE \A i \in 1..Len(data.items) : data.items[i].status = mut.arg

\* C8: while mutation b is pending with its optimistic patch on the cached
\* data of key k, the refetch of k started by the settlement of another
\* mutation a never replaces k's data with data that lacks b's patch.
C8_PatchSurvivesRefetch ==
  [][\A k \in Keys, b \in 1..Len(muts) :
       ( /\ FetchCompleted(k)
         /\ cache[k].origin \notin {0, b}
         /\ muts[b].phase = "pending"
         /\ k \in muts[b].patched
         /\ muts[b].pre[k].has
         /\ ShowsPatch(muts[b], cache[k].data) )
       => ShowsPatch(muts[b], cache'[k].data)]_vars

\* The key a status mutation snapshots and restores.
SnapshotKey(kind) ==
  CASE kind = "updateAgentStatus" -> KAgents
    [] kind = "updateTaskStatus" -> KTasks
    [] OTHER -> KAgentDetail

StatusKinds == {"updateAgentStatus", "updateTaskStatus", "useUpdateAgent"}

\* C9: two status mutations patched the same key, the second while the first
\* was pending, and nobody else wrote the key; when both writes have been
\* rejected, in either order, the key holds the data from before the first
\* patch.
C9_BothRejected ==
  [][\A m1, m2 \in 1..Len(muts) :
       LET k == SnapshotKey(muts[m1].kind) IN
         ( /\ m1 \in muts[m2].nested
           /\ muts[m1].kind \in StatusKinds
           /\ muts[m2].kind = muts[m1].kind
           /\ k \in muts[m1].patched \cap muts[m2].patched
           /\ muts[m1].writers \subseteq {m2}
           /\ muts[m2].writers \subseteq {m1}
           /\ RolledBack(m1) \/ RolledBack(m2)
           /\ muts'[m1].phase = "error"
           /\ muts'[m2].phase = "error" )
         => cache'[k].data = muts[m1].pre[k]]_vars

\* ----------------------------------------------- properties of the session
\* The step ends the session: a logout or the handling of a 401 response
\* removes the stored token.
SessionEnded == storage.auth_token /\ ~storage'.auth_token

\* C6: after a logout or a 401 response no query of the cache holds data
\* and the app store holds no agents, tasks or campaigns.
C6_NoDataAfterLogout ==
  [][SessionEnded =>
       /\ \A k \in Keys : ~cache'[k].data.has
       /\ ~appStore'.agents /\ ~appStore'.tasks /\ ~appStore'.campaigns]_vars

\* ------------------------------------------ properties of the retry policies
LastError == job.errors[Len(job.errors)]

ClientError(status) == status >= 400 /\ status < 500

\* The read has just failed and the retryer has decided.
ReadFailed ==
  /\ job.kind = "query"
  /\ job.status \in {"waiting", "error"}
  /\ job.errors # <<>>

\* C11 as stated: under every configuration of the application a read that
\* fails with a 4xx other than 429 is not retried (one attempt, then Error),
\* and a read whose first failure is a 429 is retried.
C11_RetryOnly429 ==
  (ReadFailed /\ job.config # "test") =>
    /\ (ClientError(LastError) /\ LastError # 429) =>
         (job.status = "error" /\ job.calls = 1)
    /\ (LastError = 429 /\ Len(job.errors) = 1) => job.status = "waiting"

\* The statuses each configuration retries on.
RetriedStatus(config, status) ==
  CASE config \in {"app", "stats"} -> ~ClientError(status)
    [] config = "router" -> status # 401
    [] config \in {"health", "healthPlain"} -> TRUE
    [] OTHER -> FALSE

\* C11 amended: under AppProvider's client and for the dashboard stats a read
\* that fails with any 4xx, 429 included, is not retried; under the client of
\* OptimizedDashboard only a 401 is not retried; useApiHealth retries on
\* every status. Whatever is retried is retried at most 3 times.
C11_RetryByConfig ==
  ReadFailed =>
    (job.status = "waiting" <=>
       (RetriedStatus(job.config, LastError) /\ Len(job.errors) <= 3))

\* A read of AppProvider's client whose first attempt failed with a 429 and
\* was not retried.
C11_Witness ==
  /\ job.kind = "query"
  /\ job.config = "app"
  /\ job.errors = <<429>>
  /\ job.status = "error"
  /\ job.calls = 1

\* -------------------------------------------- properties of ApiService
\* C12: a call settles in one of three ways: on a 2xx it resolves with the
\* body and the status; on another status it rejects with an ApiError of
\* that status whose message is the body's detail, or HTTP <status> (with
\* details {} when the body is not JSON); when fetch fails it rejects with
\* an ApiError of status 0. It never resolves on a non-2xx.
C12_ThreeWays ==
  call.result # Pending =>
    LET o == call.outcome
        res == call.result
    IN
      CASE o.fetch = "TypeError" ->
             res.settled = "rejected" /\ res.type = "ApiError" /\ res.status = 0
        [] o.fetch = "response" /\ Ok(o.status) ->
             res = Resolved(o.body, o.status)
        [] OTHER ->
             /\ res.settled = "rejected"
             /\ res.type = "ApiError"
             /\ res.status = o.status
             /\ res.message = IF o.body = "withDetail" THEN "detail"
                              ELSE "HTTP " \o ToString(o.status)
             /\ o.body = "notJson" => res.payload = "{}"

\* The step is a mount that reads key k while k holds stale data.
ReadStale(k) ==
  /\ ~cache[k].active
  /\ cache'[k].active
  /\ cache[k].data.has
  /\ cache[k].invalidated

\* The step is a handler of a mutation (onMutate, onSuccess, onError,
\* onSettled).
MutationStep ==
  \/ Len(muts') > Len(muts)
  \/ \E m \in 1..Len(muts) : muts'[m].phase # muts[m].phase

\* C13 as stated: a read of an entry with stale data leaves the data in
\* place and has a fetch in flight, and while a key with data is being
\* fetched its data is replaced only by the success of that fetch.
C13_OnlyFetchReplaces ==
  [][\A k \in Keys :
       /\ ReadStale(k) => (cache'[k].data = cache[k].data /\ cache'[k].fetching)
       /\ (cache[k].fetching /\ cache[k].data.has /\ cache'[k].data # cache[k].data)
            => (FetchCompleted(k) /\ cache'[k].data.has)]_vars

\* C13 amended: a read of an entry with stale data leaves the data in place
\* and has a fetch in flight, and while a key with data is being fetched its
\* data is replaced only by the success of that fetch or by a cache write of
\* a mutation handler.
C13_StaleWhileRevalidate ==
  [][\A k \in Keys :
       /\ ReadStale(k) => (cache'[k].data = cache[k].data /\ cache'[k].fetching)
       /\ (cache[k].fetching /\ cache[k].data.has /\ cache'[k].data # cache[k].data)
            => \/ FetchCompleted(k) /\ cache'[k].data.has
               \/ MutationStep]_vars

\* Data fetched earlier and grown stale with time is shown while its
\* refetch is in flight, no mutation having run.
C13_Witness ==
  /\ muts = <<>>
  /\ \E k \in Keys :
       /\ cache[k].active
       /\ cache[k].fetching
       /\ cache[k].data.has
       /\ cache[k].invalidated

\* The entry of key k is fresh: it has data younger than its staleTime, not
\* invalidated, and no fetch in flight.
Fresh(k) == cache[k].data.has /\ ~cache[k].invalidated /\ ~cache[k].fetching

\* The step is a mount that reads key k.
Read(k) == ~cache[k].active /\ cache'[k].active

\* C14 as stated: while the entry of k is fresh, a read of k, or a polling
\* tick for k when k is polled, issues no request (the steps of mutation
\* handlers, which invalidate and refetch, are not meant).
C14_FreshNoRequest ==
  [][\A k \in Keys :
       (Fresh(k) /\ ~MutationStep /\ (Read(k) \/ k \in Polled))
         => ~cache'[k].fetching]_vars

\* C14 amended: a read (a mounting useQuery) of a fresh entry returns the
\* cached data and issues no request.
C14_FreshReadNoRequest ==
  [][\A k \in Keys :
       (Fresh(k) /\ Read(k))
         => (~cache'[k].fetching /\ cache'[k].data = cache[k].data)]_vars

\* A mount was served fresh data from the cache and no fetch runs.
C14_Witness ==
  \E k \in Keys :
    /\ cache[k].active
    /\ cache[k].hit
    /\ cache[k].data.has
    /\ ~cache[k].fetching

\* The step removes the query of key k from the cache without a mutation
\* handler asking for it: its gcTime timer fired.
Evicted(k) == cache[k].present /\ ~cache'[k].present /\ ~MutationStep

Stopped == intervalRef # 0 /\ intervalRef' = 0

PatchTargets(kind, k) ==
  CASE kind = "updateAgentStatus" -> k = KAgents
    [] kind = "updateTaskStatus" -> Matches(KTasks, k)
    [] kind = "useUpdateAgent" -> k = KAgentDetail
    [] kind = "useDeleteAgent" -> Matches(KAgentLists, k)
    [] OTHER -> FALSE

ErrorRecorded(r) ==
  \/ store'.errors[r] # store.errors[r] /\ store'.errors[r] # NoMessage
  \/ reads[r].fetching /\ ~reads'[r].fetching /\ reads'[r].status = "error"

\* C19: a step that records a read error of a resource changes nothing but
\* that resource's error and loading flags (and the query's status): the
\* lists of the store and the data of every query stay as they were.
C19_ErrorKeepsData ==
  [][\A r \in Resources : ErrorRecorded(r) =>
       /\ store'.agents = store.agents
       /\ store'.tasks = store.tasks
       /\ \A q \in Resources : reads'[q].data = reads[q].data
       /\ \A q \in Resources \ {r} :
            /\ store'.errors[q] = store.errors[q]
            /\ store'.loading[q] = store.loading[q]]_vars

\* A resource that was read successfully has failed its refetch: the error
\* is recorded and the list is still there.
C19_Witness ==
  \E r \in Resources :
    /\ reads[r].status = "error"
    /\ reads[r].data \in Lists \ {"empty"}
    /\ store[r] = reads[r].data
    /\ store.errors[r] \in Messages \ {""}
    /\ ~store.loading[r]

\* The step is the failure of the /api/v1/auth/me request of the initial
\* session validation.
ValidationFailed ==
  /\ "me" \in calls
  /\ "me" \notin calls'
  /\ ~session'.isAuthenticated

\* refreshSession has been entered: its request is in flight, or it found
\* no refresh token and reported the session expired.
RefreshAttempted == "refresh" \in calls' \/ session'.error = "Session expired"

\* C20: when the initial validation fails with 401 (the step in which the
\* interceptor sends the page to the login), refreshSession is attempted;
\* when it fails otherwise the session is logged out and no refresh is
\* attempted.
C20_RefreshOn401 ==
  [][ValidationFailed =>
       IF page'.redirect /\ ~page.redirect
       THEN RefreshAttempted
       ELSE ~storage'.auth_token /\ ~RefreshAttempted]_vars

\* The notifications are ordered newest first.
NewestFirst(list) == \A i \in 1..(Len(list) - 1) : list[i].id > list[i + 1].id

\* C21: the notifications list never holds more than 50 entries and is
\* ordered newest first; an addNotification puts the new entry, unread, at
\* the head and keeps the entries that were there, in their order, up to the
\* 50th of the new list.
C21_NewestFifty ==
  [][/\ Len(app'.notifications) <= NotificationsKept
     /\ NewestFirst(app'.notifications)
     /\ clock' = clock + 1 =>
          LET old == app.notifications
              new == app'.notifications
          IN /\ new[1] = [id |-> clock', read |-> FALSE]
             /\ Tail(new) =
                  SubSeq(old, 1, IF Len(old) < NotificationsKept THEN Len(old)
                                 ELSE NotificationsKept - 1)]_vars

\* More than 50 notifications were added: the list holds the 50 newest and
\* the oldest ones are gone.
C21_Witness ==
  /\ clock > NotificationsKept
  /\ Len(app.notifications) = NotificationsKept
  /\ app.notifications[1].id = clock
  /\ app.notifications[NotificationsKept].id > 1

\* C25: in the app store isAuthenticated is true exactly when user is not
\* null.
C25_AuthenticatedIffUser == app.isAuthenticated <=> app.user # NoUser

\* After notifications were added and a logout or reset emptied the store,
\* a user was set again: the store reports it authenticated.
C25_Witness ==
  /\ app.isAuthenticated
  /\ app.user \in Users
  /\ edits > 0
  /\ app.notifications = <<>>
  /\ clock > 0

\* The step is the settlement of the pending tick's health request.
TickSettled == monitor.pending # 0 /\ monitor'.pending = 0

\* C22: healthHistory never holds more than 20 entries; a tick that
\* completes appends its entry at the end and keeps the entries before it,
\* in their order, but for the oldest beyond 20; a tick whose request was
\* aborted appends nothing, and no other step changes the history.
C22_LastTwenty ==
  [][LET old == monitor.history
         new == monitor'.history
         shift == Len(old) + 1 - Len(new)
     IN /\ Len(new) <= HistoryKept
        /\ ~TickSettled => new = old
        /\ (TickSettled /\ monitor.aborted) => new = old
        /\ (TickSettled /\ ~monitor.aborted) =>
             /\ Len(new) = IF Len(old) < HistoryKept THEN Len(old) + 1
                           ELSE HistoryKept
             /\ new[Len(new)] = monitor.pending
             /\ \A i \in 1..(Len(new) - 1) : new[i] = old[i + shift]]_vars

\* More than 20 ticks completed, so the oldest entries were dropped, and the
\* last tick was in flight at unmount: it was aborted and appended nothing.
C22_Witness ==
  /\ ~monitor.mounted
  /\ monitor.pending = 0
  /\ Len(monitor.history) = HistoryKept
  /\ monitor.history[1] > 1
  /\ monitor.history[HistoryKept] < monitor.ticks

\* logoutSession was the last thing to end the session and nothing has
\* signed in since: its toast is up and the token is gone. A validation or
\* a refresh still in flight in such a state was sent before the logout (a
\* refresh started later finds no refresh token and sends nothing).
LoggedOut == page.toast = "Logout Realizado" /\ ~storage.auth_token

\* C23: when a validateSession or refreshSession request that was in flight
\* at logoutSession completes, the session and the auth store stay signed
\* out and no token is written to storage.
C23_LogoutIsFinal ==
  [][\A c \in {"me", "meAfterRefresh", "refresh"} :
       (LoggedOut /\ c \in calls /\ c \notin calls')
         => /\ ~session'.isAuthenticated
            /\ ~authStore'.isAuthenticated
            /\ ~storage'.auth_token
            /\ ~storage'.refresh_token]_vars

\* C24: whenever the auth store reports the user authenticated, an
\* auth_token is in storage.
C24_TokenWhenAuthenticated == authStore.isAuthenticated => storage.auth_token

\* C26: at most one auto-refresh interval exists; it exists exactly while
\* the hook is mounted and the session state its effect last ran for is
\* authenticated, which once React has run the effect is the session state
\* itself; none exists after unmount.
C26_OneRefreshTimer ==
  /\ hook.timers <= 1
  /\ hook.timers = 1 <=> (hook.mounted /\ hook.effect)
  /\ (hook.mounted /\ hook.effect = hook.isAuthenticated)
       => (hook.timers = 1 <=> hook.isAuthenticated)
  /\ ~hook.mounted => hook.timers = 0

\* The interval fired, its refresh failed and the effect ran again: the
\* session is not authenticated and no interval is left.
C26_Witness ==
  /\ hook.mounted
  /\ hook.fired > 0
  /\ ~hook.isAuthenticated
  /\ ~hook.effect
  /\ hook.inflight = {}
  /\ hook.timers = 0

\* C27: while the component is mounted, the signal getSignal() returns is
\* not aborted: the ref is null, and getSignal creates a controller, or it
\* holds a controller nothing has aborted.
C27_LiveSignalWhileMounted ==
  mounted => LET c == getSignal(ctrls, current) IN ~c.ctrls[c.current]

\* The component is mounted, every earlier controller was aborted by
\* createController() or abort(), and the ref holds the newest controller.
C27_Witness ==
  /\ mounted
  /\ current > 1
  /\ current = Len(ctrls)
  /\ \A i \in 1..(current - 1) : ctrls[i]
  /\ ~ctrls[current]

\* C28: once the signal has been aborted by the unmount, no firing of an
\* interval or of a timeout starts the user callback, whether its timer was
\* set before or after the abort.
C28_NoCallbackAfterAbort ==
  [][abortable.aborted => abortable'.started = abortable.started]_vars

\* User callbacks ran while the component was mounted, and after the unmount
\* a timer that was set after the abort has fired.
C28_Witness ==
  /\ abortable.aborted
  /\ abortable.started > 0
  /\ abortable.firedLate > 0

====
